---- MODULE Spec2Model ----
(***************************************************************************)
(* Backup execution pipeline, remote-state-driven retention and the        *)
(* scheduler's maintenance jobs of rclone-backup-web                       *)
(* (services/backup_service.py, services/scheduler_service.py).            *)
(*                                                                         *)
(* Strings are sequences of character codes (ASCII), so that startswith,   *)
(* split and the lexicographic sort are computed as Python computes them.  *)
(* Time is counted in whole hours since 2024-01-01 00:00 UTC.              *)
(***************************************************************************)
EXTENDS Integers, Sequences, FiniteSets, TLC

VARIABLES
    tasks,        \* backup_tasks table: task id -> BackupTask row
    logs,         \* backup_logs table: log id -> BackupLog row
    nextLogId,    \* next value of the backup_logs primary key
    threads,      \* backup threads started by run_backup_task
    remote,       \* destination profile -> names of the objects in its directory
    clock,        \* current instant, hours since the epoch (UTC)
    ret,          \* what the last run_backup_task / delete_backup_task call returned
    lastCleanup,  \* the gateway calls of the last retention cleanup
    scheduler,    \* the APScheduler instance: whether it runs, and its job store
    temp,         \* the temp directory: the files in it, each with what it holds
    requests,     \* the create and update requests being served
    source        \* the files and directories at the source path of the tasks

vars == <<tasks, logs, nextLogId, threads, remote, clock, ret, lastCleanup, scheduler, temp, requests, source>>

\* ------------------------------------------------------------------ bounds

MaxThreads == 2
MaxLogs == 2
MaxClock == 29
MaxRetention == 3
MaxListing == 4
MaxOld == 2
MaxRequests == 2

\* ------------------------------------------------------- program constants

StaleHours == 6
PoolCapacity == 20
UtcOffsetHours == 8
DailyCleanupHour == 1
DatePartLen == 8
TimePartLen == 6
CronFields == 5

\* ----------------------------------------------------------------- strings

US == 95
DOT == 46

Digit(d) == 48 + d

Pad2(n) == <<Digit((n \div 10) % 10), Digit(n % 10)>>

StartsWith(s, p) ==
    /\ Len(s) >= Len(p)
    /\ SubSeq(s, 1, Len(p)) = p

RECURSIVE SplitFrom(_, _, _, _)
SplitFrom(s, sep, i, cur) ==
    IF i > Len(s) THEN <<cur>>
    ELSE IF s[i] = sep THEN <<cur>> \o SplitFrom(s, sep, i + 1, <<>>)
    ELSE SplitFrom(s, sep, i + 1, Append(cur, s[i]))

Split(s, sep) == SplitFrom(s, sep, 1, <<>>)

RECURSIVE LexLess(_, _)
LexLess(a, b) ==
    IF a = <<>> THEN b # <<>>
    ELSE IF b = <<>> THEN FALSE
    ELSE IF a[1] # b[1] THEN a[1] < b[1]
    ELSE LexLess(Tail(a), Tail(b))

RECURSIVE SortByName(_)
SortByName(S) ==
    IF S = {} THEN <<>>
    ELSE LET m == CHOOSE x \in S : \A y \in S \ {x} : LexLess(x, y)
         IN <<m>> \o SortByName(S \ {m})

SeqToSet(s) == {s[i] : i \in 1..Len(s)}

\* ------------------------------------------------------------ artifact names

\* strftime('%Y%m%d_%H%M%S') of an instant given in hours since the epoch
Timestamp(t) ==
    <<50, 48, 50, 52, 48, 49>> \o Pad2(1 + (t \div 24)) \o <<US>>
        \o Pad2(t % 24) \o <<48, 48, 48, 48>>

ExtTarGz == <<DOT, 116, 97, 114, DOT, 103, 122>>
ExtZip == <<DOT, 122, 105, 112>>
ExtEncrypted == <<DOT, 101, 110, 99, 114, 121, 112, 116, 101, 100>>
SourceBaseName == <<100, DOT, 116, 120, 116>>

\* the copy branch taking a directory as it takes a file
BaseFileNameCopyingDirectories(task, t) ==
    IF task.compression_enabled
    THEN IF task.compression_type = "tar.gz" THEN task.name \o <<US>> \o Timestamp(t) \o ExtTarGz
         ELSE IF task.compression_type = "zip" THEN task.name \o <<US>> \o Timestamp(t) \o ExtZip
         ELSE <<>>
    ELSE task.name \o <<US>> \o Timestamp(t) \o <<US>> \o SourceBaseName

\* temp file name of _execute_backup_to_storage: "" when the step fails
BaseFileName(task, t) ==
    IF task.compression_enabled
    THEN IF task.compression_type = "tar.gz" THEN task.name \o <<US>> \o Timestamp(t) \o ExtTarGz
         ELSE IF task.compression_type = "zip" THEN task.name \o <<US>> \o Timestamp(t) \o ExtZip
         ELSE <<>>
    ELSE IF task.source_is_file
         THEN task.name \o <<US>> \o Timestamp(t) \o <<US>> \o SourceBaseName
         ELSE <<>>

\* line 300: the artifact is encrypted when the flag is set and a password is stored
Encrypts(task) == task.encryption_enabled /\ task.encryption_password # <<>>

ArtifactName(task, t) ==
    IF BaseFileName(task, t) = <<>> THEN <<>>
    ELSE IF Encrypts(task) THEN BaseFileName(task, t) \o ExtEncrypted
    ELSE BaseFileName(task, t)

\* ------------------------------------------------ source tree and archives
\* A path is a sequence of names; a tree is a set of entries, one per path.

DirEntry(path) == [path |-> path, kind |-> "dir", content |-> <<>>]
FileEntry(path, content) == [path |-> path, kind |-> "file", content |-> content]

\* os.path.dirname and os.path.basename
DirName(path) == SubSeq(path, 1, Len(path) - 1)
BaseName(path) == path[Len(path)]

\* the source path of the tasks: /data/d.txt
SourcePath == <<<<100, 97, 116, 97>>, SourceBaseName>>

\* os.path.relpath(path, start) for a path below start
RelPath(path, start) == SubSeq(path, Len(start) + 1, Len(path))

\* os.path.isfile
IsFile(tree, path) == \E e \in tree : e.path = path /\ e.kind = "file"

\* _create_tar_archive: tar.add stores the source under its base name and,
\* for a directory, every directory and file below it
CreateTarArchive(tree, source_path) ==
    {[e EXCEPT !.path = <<BaseName(source_path)>> \o RelPath(e.path, source_path)] : e \in tree}

\* _create_zip_archive: a file is written under its base name; of a
\* directory, the files os.walk yields are written under their paths
\* relative to the parent of the source
CreateZipArchive(tree, source_path) ==
    IF IsFile(tree, source_path)
    THEN {[e EXCEPT !.path = <<BaseName(source_path)>>] : e \in {x \in tree : x.path = source_path}}
    ELSE {[e EXCEPT !.path = RelPath(e.path, DirName(source_path))] :
            e \in {x \in tree : x.kind = "file"}}

\* what extracting an archive into an empty directory leaves there: every
\* member, and the directories a member's path goes through
Extract(archive) ==
    archive \cup UNION {{DirEntry(SubSeq(e.path, 1, k)) : k \in 1..(Len(e.path) - 1)} : e \in archive}

\* the source as it lies below the parent of the source path
Relative(tree, source_path) ==
    {[e EXCEPT !.path = RelPath(e.path, DirName(source_path))] : e \in tree}

\* a source that is one file, and one that is a directory holding a file
SourceFile == {FileEntry(SourcePath, <<7>>)}
SourceTree == {DirEntry(SourcePath), FileEntry(SourcePath \o <<<<120>>>>, <<7>>)}

\* the source a task's os.path.isfile result comes from
SourceOf(task) == IF task.source_is_file THEN SourceFile ELSE SourceTree

\* ------------------------------------------------------------- encryption
\* Bytes and characters are their codes. The SHA-256 digest and the Fernet
\* token are kept as what they are made from: a digest stands for its input,
\* and a token carries the key that signed it.

PadChar == 61

\* the base64 alphabet: A-Z, a-z, 0-9, + and /
B64Char(i) ==
    IF i < 26 THEN 65 + i
    ELSE IF i < 52 THEN 97 + (i - 26)
    ELSE IF i < 62 THEN 48 + (i - 52)
    ELSE IF i = 62 THEN 43 ELSE 47

B64Index(ch) == CHOOSE i \in 0..63 : B64Char(i) = ch

\* base64.b64encode: three bytes to four characters, the last group padded
RECURSIVE B64Encode(_)
B64Encode(b) ==
    IF Len(b) = 0 THEN <<>>
    ELSE IF Len(b) = 1
    THEN <<B64Char(b[1] \div 4), B64Char((b[1] % 4) * 16), PadChar, PadChar>>
    ELSE IF Len(b) = 2
    THEN <<B64Char(b[1] \div 4), B64Char((b[1] % 4) * 16 + b[2] \div 16),
           B64Char((b[2] % 16) * 4), PadChar>>
    ELSE <<B64Char(b[1] \div 4), B64Char((b[1] % 4) * 16 + b[2] \div 16),
           B64Char((b[2] % 16) * 4 + b[3] \div 64), B64Char(b[3] % 64)>>
         \o B64Encode(SubSeq(b, 4, Len(b)))

\* base64.b64decode of a padded text
RECURSIVE B64Decode(_)
B64Decode(text) ==
    IF Len(text) < 4 THEN <<>>
    ELSE LET i1 == B64Index(text[1])
             i2 == B64Index(text[2])
         IN IF text[3] = PadChar THEN <<i1 * 4 + i2 \div 16>>
            ELSE IF text[4] = PadChar
            THEN <<i1 * 4 + i2 \div 16, (i2 % 16) * 16 + B64Index(text[3]) \div 4>>
            ELSE <<i1 * 4 + i2 \div 16, (i2 % 16) * 16 + B64Index(text[3]) \div 4,
                   (B64Index(text[3]) % 4) * 64 + B64Index(text[4])>>
                 \o B64Decode(SubSeq(text, 5, Len(text)))

\* _encrypt_password: the form's password as it is stored
EncryptPassword(password) == B64Encode(password)

\* the stored text taken for the password
DecryptPasswordAsStored(encrypted_password) == encrypted_password

\* _decrypt_password
DecryptPassword(encrypted_password) == B64Decode(encrypted_password)

\* _generate_key_from_password: urlsafe_b64encode(sha256(password))
GenerateKeyFromPassword(password) == [sha256 |-> password]

\* Fernet(key).encrypt(data): the token is signed with the key
FernetEncrypt(key, data) == [key |-> key, data |-> data]

\* Fernet(key).decrypt(token): InvalidToken unless the key signed the token
FernetDecrypt(key, token) ==
    IF token.key = key THEN [ok |-> TRUE, data |-> token.data]
    ELSE [ok |-> FALSE, data |-> <<>>]

\* _encrypt_file: what is written to the output file
EncryptFile(data, password) ==
    FernetEncrypt(GenerateKeyFromPassword(DecryptPassword(password)), data)

\* the reverse of _encrypt_file by someone holding a password
DecryptFile(token, password) ==
    FernetDecrypt(GenerateKeyFromPassword(password), token)

\* --------------------------------------------------------- retention engine

\* the filter of _cleanup_old_backups_from_remote_storage
IsTaskFile(name, file_name) ==
    LET parts == Split(file_name, US) IN
    /\ StartsWith(file_name, name \o <<US>>)
    /\ Len(parts) >= 3
    /\ Len(parts[Len(parts) - 1]) = DatePartLen
    /\ Len(Split(parts[Len(parts)], DOT)[1]) = TimePartLen

TaskFiles(name, files) == {f \in files : IsTaskFile(name, f)}

\* task_files[:-retention_count] of the sorted list (Python slice semantics)
SliceEnd(len, n) ==
    IF n > 0 THEN (IF len - n > 0 THEN len - n ELSE 0)
    ELSE IF n = 0 THEN 0
    ELSE IF -n < len THEN -n ELSE len

FilesToDelete(name, retention_count, files) ==
    LET sorted == SortByName(TaskFiles(name, files)) IN
    IF Len(sorted) > retention_count
    THEN SubSeq(sorted, 1, SliceEnd(Len(sorted), retention_count))
    ELSE <<>>

\* ------------------------------------------------------------------- time

\* _get_local_time: Asia/Shanghai wall clock, stored without zone
LocalTime(c) == c + UtcOffsetHours

\* datetime.utcnow() - timedelta(hours=6) of run_scheduled_task_check
CutoffTime(c) == c - StaleHours

NoTime == -1

\* the clock read without a zone on a host whose zone is UTC
HostNow(c) == c

\* datetime.now(pytz.timezone('Asia/Shanghai')) of _calculate_next_run_time
ShanghaiNow(c) == c + UtcOffsetHours

\* trigger.get_next_fire_time(None, now) of an "0 H * * *" trigger: with no
\* previous fire time the search starts at now itself, so the result is the
\* first H:00 of the trigger's wall clock at or after now
RECURSIVE GetNextFireTime(_, _)
GetNextFireTime(h, now) == IF now % 24 = h THEN now ELSE GetNextFireTime(h, now + 1)

\* the field "*"
Star == -1

\* CronTrigger(minute, hour, day, month, day_of_week) accepts the fields
CronTriggerOk(cron) ==
    /\ cron[1] \in {Star} \cup (0..59)
    /\ cron[2] \in {Star} \cup (0..23)
    /\ cron[3] \in {Star} \cup (1..31)
    /\ cron[4] \in {Star} \cup (1..12)
    /\ cron[5] \in {Star} \cup (0..6)

\* _calculate_next_run_time: None for a spec the trigger does not accept;
\* the value is an Asia/Shanghai wall-clock time stored without zone
CalculateNextRunTime(cron, c) ==
    IF Len(cron) # CronFields THEN NoTime
    ELSE IF ~CronTriggerOk(cron) THEN NoTime
    ELSE IF cron[2] = Star THEN ShanghaiNow(c)
    ELSE GetNextFireTime(cron[2], ShanghaiNow(c))

\* ------------------------------------------------------------------ tables

StartClock == 5

Dests == {1, 2}
TaskIds == {1, 2, 3}
Threads == DOMAIN threads

NameA == <<97>>
NameAB == <<97, US, 98>>
NameC == <<99>>

Binding(d) == [storage_config_id |-> d, remote_path |-> "backups"]

NoCron == <<>>
Daily2 == <<0, 2, Star, Star, Star>>

\* task 1: two destination bindings, scheduled; task 2: one binding, manual-only,
\* its name extends task 1's name; task 3: disabled.  Every task also carries the
\* single-destination columns the task form writes.
InitialTasks ==
    (1 :> [exists |-> TRUE, name |-> NameA, is_active |-> TRUE,
           cron_expression |-> Daily2,
           compression_enabled |-> TRUE, compression_type |-> "tar.gz",
           encryption_enabled |-> FALSE, encryption_password |-> <<>>,
           source_is_file |-> FALSE,
           retention_count |-> 1,
           task_storage_configs |-> <<Binding(1), Binding(2)>>,
           storage_config_id |-> 1, remote_path |-> "backups",
           last_run_at |-> NoTime,
           next_run_at |-> CalculateNextRunTime(Daily2, StartClock)])
    @@
    (2 :> [exists |-> TRUE, name |-> NameAB, is_active |-> TRUE,
           cron_expression |-> NoCron,
           compression_enabled |-> TRUE, compression_type |-> "tar.gz",
           encryption_enabled |-> FALSE, encryption_password |-> <<>>,
           source_is_file |-> FALSE,
           retention_count |-> 1,
           task_storage_configs |-> <<Binding(1)>>,
           storage_config_id |-> 1, remote_path |-> "backups",
           last_run_at |-> NoTime, next_run_at |-> NoTime])
    @@
    (3 :> [exists |-> TRUE, name |-> NameC, is_active |-> FALSE,
           cron_expression |-> NoCron,
           compression_enabled |-> TRUE, compression_type |-> "tar.gz",
           encryption_enabled |-> FALSE, encryption_password |-> <<>>,
           source_is_file |-> FALSE,
           retention_count |-> 1,
           task_storage_configs |-> <<Binding(1)>>,
           storage_config_id |-> 1, remote_path |-> "backups",
           last_run_at |-> NoTime, next_run_at |-> NoTime])

TaskExists(t) == t \in TaskIds /\ tasks[t].exists

RunningLogs(t) == {id \in DOMAIN logs : logs[id].task_id = t /\ logs[id].status = "running"}

IdleThread ==
    [pc |-> "idle", task_id |-> 0, manual |-> FALSE, storage_configs |-> <<>>,
     idx |-> 0, log_id |-> 0, temp_file |-> <<>>, result |-> "", done |-> <<>>]

\* a request-serving thread with no request
IdleRequest ==
    [pc |-> "idle", op |-> "", task_id |-> 0, name |-> <<>>, retention_count |-> 0]

NoReturn == [op |-> "none", task_id |-> 0, ok |-> FALSE, msg |-> ""]
NoCleanup ==
    [task_id |-> 0, dest |-> 0, list_ok |-> FALSE, raised |-> FALSE, listed |-> {},
     calls |-> <<>>, failed |-> {}]


\* ------------------------------------------------------ scheduler_service

\* job ids: f"backup_task_{task.id}" and the ids of the two maintenance jobs
JobId(t) == <<"backup_task_", t>>
CheckJobId == <<"check_task_status", 0>>
CleanupJobId == <<"cleanup_old_backups", 0>>

Hourly == <<0, Star, Star, Star, Star>>
DailyCleanup == <<0, DailyCleanupHour, Star, Star, Star>>

\* scheduler.add_job(..., id=id, replace_existing=True)
AddJob(js, id, trigger) == {j \in js : j.id # id} \cup {[id |-> id, trigger |-> trigger]}

\* scheduler.remove_job(id); a missing id raises and the callers swallow it
RemoveJob(js, id) == {j \in js : j.id # id}

\* lines 310-337
AddSystemJobs(js) == AddJob(AddJob(js, CheckJobId, Hourly), CleanupJobId, DailyCleanup)

\* add_backup_task parsing the spec before it removes the task's job
AddBackupTaskParsingFirst(js, t, task) ==
    IF task.cron_expression = NoCron THEN js
    ELSE IF Len(task.cron_expression) # CronFields THEN js
    ELSE IF ~CronTriggerOk(task.cron_expression) THEN RemoveJob(js, JobId(t))
    ELSE AddJob(RemoveJob(js, JobId(t)), JobId(t), task.cron_expression)

\* lines 221-280, the job store after add_backup_task(task)
AddBackupTask(js, t, task) ==
    IF task.cron_expression = NoCron THEN js
    ELSE IF Len(task.cron_expression) # CronFields THEN RemoveJob(js, JobId(t))
    ELSE IF ~CronTriggerOk(task.cron_expression) THEN RemoveJob(js, JobId(t))
    ELSE AddJob(RemoveJob(js, JobId(t)), JobId(t), task.cron_expression)

\* lines 282-289
RemoveBackupTask(js, t) == RemoveJob(js, JobId(t))

\* update_backup_task without its is_active test
UpdateBackupTaskIgnoringActive(js, t, task) ==
    IF task.cron_expression # NoCron THEN AddBackupTask(js, t, task)
    ELSE RemoveBackupTask(js, t)

\* lines 291-307
UpdateBackupTask(js, t, task) ==
    IF ~task.is_active THEN RemoveBackupTask(js, t)
    ELSE IF task.cron_expression # NoCron THEN AddBackupTask(js, t, task)
    ELSE RemoveBackupTask(js, t)

\* lines 211-214: add_backup_task for the active tasks ts that have a cron spec
RECURSIVE AddActiveTasks(_, _, _)
AddActiveTasks(js, tb, ts) ==
    IF ts = {} THEN js
    ELSE LET t == CHOOSE x \in ts : \A y \in ts : x <= y IN
         AddActiveTasks(IF tb[t].cron_expression # NoCron
                        THEN AddBackupTask(js, t, tb[t]) ELSE js,
                        tb, ts \ {t})

\* reload_backup_tasks without the removal of the stored task jobs
ReloadBackupTasksKeepingStale(js, tb) ==
    AddActiveTasks(js, tb, {t \in DOMAIN tb : tb[t].exists /\ tb[t].is_active})

\* lines 200-219
ReloadBackupTasks(js, tb) ==
    AddActiveTasks({j \in js : j.id[1] # "backup_task_"}, tb,
                   {t \in DOMAIN tb : tb[t].exists /\ tb[t].is_active})

\* the scheduler once init_app and start have run on an empty job store
StartedScheduler(tb) ==
    [running |-> TRUE, jobs |-> ReloadBackupTasks(AddSystemJobs({}), tb)]

InitWith(n) ==
    /\ tasks = InitialTasks
    /\ logs = <<>>
    /\ nextLogId = 1
    /\ threads = [th \in 1..n |-> IdleThread]
    /\ remote = [d \in Dests |-> {}]
    /\ clock = StartClock
    /\ ret = NoReturn
    /\ lastCleanup = NoCleanup
    /\ temp = {}
    /\ requests = [r \in 1..MaxRequests |-> IdleRequest]
    /\ source = SourceOf(tasks[1])
    /\ scheduler = StartedScheduler(InitialTasks)

\* -------------------------------------------------------- run_backup_task

FreeThreads == {th \in Threads : threads[th].pc = "idle"}

\* the gate without its running-row query
GateNoRunningCheck(t) ==
    IF ~TaskExists(t) THEN "not found"
    ELSE IF ~tasks[t].is_active THEN "disabled"
    ELSE ""

\* the gate without its is_active test
GateNoActiveCheck(t) ==
    IF ~TaskExists(t) THEN "not found"
    ELSE IF RunningLogs(t) # {} THEN "running"
    ELSE ""

\* lines 122-136, the gate of run_backup_task: "" when the call is accepted
Gate(t) ==
    IF ~TaskExists(t) THEN "not found"
    ELSE IF ~tasks[t].is_active THEN "disabled"
    ELSE IF RunningLogs(t) # {} THEN "running"
    ELSE ""

\* lines 119-156
RunBackupTask(t, manual) ==
    /\ IF Gate(t) # ""
       THEN /\ ret' = [op |-> "run", task_id |-> t, ok |-> FALSE, msg |-> Gate(t)]
            /\ UNCHANGED threads
       ELSE /\ FreeThreads # {}
            /\ LET th == CHOOSE x \in FreeThreads : \A y \in FreeThreads : x <= y IN
               threads' = [threads EXCEPT ![th] =
                   [IdleThread EXCEPT !.pc = "start", !.task_id = t, !.manual = manual]]
            /\ ret' = [op |-> "run", task_id |-> t, ok |-> TRUE, msg |-> "started"]
    /\ UNCHANGED <<tasks, logs, nextLogId, remote, clock, lastCleanup, scheduler, temp, requests, source>>

\* ------------------------------------------- _execute_backup_task_async

\* lines 167-185: the destination bindings of a task, in stored order
StorageConfigsOf(task) ==
    IF task.task_storage_configs # <<>> THEN task.task_storage_configs
    ELSE IF task.storage_config_id # 0
         THEN <<[storage_config_id |-> task.storage_config_id, remote_path |-> task.remote_path]>>
    ELSE <<>>

\* lines 162-189
ThreadStart(th) ==
    LET T == threads[th] IN
    /\ T.pc = "start"
    /\ IF ~TaskExists(T.task_id) \/ StorageConfigsOf(tasks[T.task_id]) = <<>>
       THEN threads' = [threads EXCEPT ![th] = IdleThread]
       ELSE threads' = [threads EXCEPT ![th] =
               [T EXCEPT !.pc = "create", !.idx = 1,
                         !.storage_configs = StorageConfigsOf(tasks[T.task_id])]]
    /\ UNCHANGED <<tasks, logs, nextLogId, remote, clock, ret, lastCleanup, scheduler, temp, requests, source>>

\* lines 196-202
NewLog(t, binding, c) ==
    [task_id |-> t, status |-> "running", start_time |-> LocalTime(c),
     end_time |-> NoTime, error_message |-> "",
     storage_config_id |-> binding.storage_config_id]

\* the row is added to the session but not committed
CreateLogUncommitted(th, fault) ==
    LET T == threads[th] IN
    /\ T.pc = "create"
    /\ threads' = [threads EXCEPT ![th] =
           [T EXCEPT !.pc = IF fault THEN "handler" ELSE "prepare",
                     !.log_id = IF fault THEN 0 ELSE nextLogId]]
    /\ UNCHANGED <<tasks, logs, nextLogId, remote, clock, ret, lastCleanup, scheduler, temp, requests, source>>

\* lines 191-204: create the running row of the next binding and commit it;
\* fault: the statement raises, which leaves the loop
CreateLog(th, fault) ==
    LET T == threads[th] IN
    /\ T.pc = "create"
    /\ IF fault
       THEN /\ threads' = [threads EXCEPT ![th] = [T EXCEPT !.pc = "handler"]]
            /\ UNCHANGED <<logs, nextLogId>>
       ELSE /\ nextLogId <= MaxLogs
            /\ logs' = (nextLogId :> NewLog(T.task_id, T.storage_configs[T.idx], clock)) @@ logs
            /\ nextLogId' = nextLogId + 1
            /\ threads' = [threads EXCEPT ![th] =
                   [T EXCEPT !.pc = "prepare", !.log_id = nextLogId]]
    /\ UNCHANGED <<tasks, remote, clock, ret, lastCleanup, scheduler, temp, requests, source>>

\* what a temp file holds
TempFile(name, content) == [name |-> name, content |-> content]

\* os.remove(name)
RemoveTemp(files, name) == {f \in files : f.name # name}

\* the intermediate of lines 273-297 written to the temp directory; writing
\* a path that exists replaces the file
WithTemp(files, name, content) == RemoveTemp(files, name) \cup {TempFile(name, content)}

\* lines 300-314 then 333-339 when _encrypt_file fails after it has opened
\* its output: the finally clause removes temp_file, the unencrypted
\* intermediate
AfterFailedEncryption(files, task, t) ==
    RemoveTemp(WithTemp(WithTemp(files, BaseFileName(task, t), "plain"),
                        BaseFileName(task, t) \o ExtEncrypted, "partial"),
               BaseFileName(task, t))

\* lines 273-314 when every step succeeds: the intermediate is written and,
\* when the artifact is encrypted, replaced by the ciphertext
AfterPrepare(files, task, t) ==
    IF Encrypts(task)
    THEN WithTemp(RemoveTemp(WithTemp(files, BaseFileName(task, t), "plain"),
                             BaseFileName(task, t)),
                  ArtifactName(task, t), "cipher")
    ELSE WithTemp(files, BaseFileName(task, t), "plain")

PrepareOutcomes == {"ok", "failed", "raised", "encrypt_failed"}

\* lines 262-314: measure, compress and encrypt into the temp artifact;
\* outcome: what the steps do ("failed": compression returns failure,
\* "raised": a step raises, "encrypt_failed": _encrypt_file returns failure
\* with its output file opened); a run that stops here goes through the
\* finally clause, lines 333-339
Prepare(th, outcome) ==
    LET T == threads[th]
        name == IF TaskExists(T.task_id)
                THEN ArtifactName(tasks[T.task_id], LocalTime(clock)) ELSE <<>> IN
    /\ T.pc = "prepare"
    /\ outcome = "encrypt_failed" => TaskExists(T.task_id) /\ name # <<>> /\ Encrypts(tasks[T.task_id])
    /\ IF ~TaskExists(T.task_id) \/ outcome = "raised"
       THEN /\ threads' = [threads EXCEPT ![th] = [T EXCEPT !.pc = "finish", !.result = "raised"]]
            /\ UNCHANGED temp
       ELSE IF outcome = "failed" \/ name = <<>>
       THEN /\ threads' = [threads EXCEPT ![th] = [T EXCEPT !.pc = "finish", !.result = "failed"]]
            /\ UNCHANGED temp
       ELSE IF outcome = "encrypt_failed"
       THEN /\ threads' = [threads EXCEPT ![th] = [T EXCEPT !.pc = "finish", !.result = "failed"]]
            /\ temp' = AfterFailedEncryption(temp, tasks[T.task_id], LocalTime(clock))
       ELSE /\ threads' = [threads EXCEPT ![th] = [T EXCEPT !.pc = "upload", !.temp_file = name]]
            /\ temp' = AfterPrepare(temp, tasks[T.task_id], LocalTime(clock))
    /\ UNCHANGED <<tasks, logs, nextLogId, remote, clock, ret, lastCleanup, scheduler, requests, source>>

\* lines 686-750: the delete calls of one retention cleanup over a listing
\* "failed": list_files returns failure (lines 697-699); "raised": an exception
\* inside the cleanup, caught at lines 749-750
ListOutcomes == {"ok", "failed", "raised"}

CleanupCalls(task, files, listing) ==
    IF listing = "ok" THEN FilesToDelete(task.name, task.retention_count, files) ELSE <<>>

\* the delete loop stopping at the first failed delete
RECURSIVE DeleteCallsStopAtFailure(_, _)
DeleteCallsStopAtFailure(selected, failed) ==
    IF selected = <<>> THEN <<>>
    ELSE IF selected[1] \in failed THEN <<selected[1]>>
    ELSE <<selected[1]>> \o DeleteCallsStopAtFailure(Tail(selected), failed)

\* lines 731-743: one _delete_remote_file call per selected file; a failed
\* delete is logged and the loop goes on
DeleteCalls(selected, failed) == selected

\* what is left of the directory: a failed delete leaves its object in place
AfterCleanup(files, calls, failed) == files \ (SeqToSet(calls) \ failed)

\* a cleanup failure reported as the binding's failure
UploadResultWithCleanup(up_ok, listing, failed) ==
    IF ~up_ok THEN "upload failed"
    ELSE IF listing # "ok" \/ failed # {} THEN "cleanup failed"
    ELSE "ok"

\* lines 325-331: what _execute_backup_to_storage returns after the upload
UploadResult(up_ok, listing, failed) ==
    IF up_ok THEN "ok" ELSE "upload failed"

\* the cleanup run whatever the upload returned
UploadCleaningUnconditionally(th, up_ok, listing) ==
    LET T == threads[th]
        dest == T.storage_configs[T.idx].storage_config_id IN
    /\ T.pc = "upload"
    /\ TaskExists(T.task_id)
    /\ LET files == IF up_ok THEN remote[dest] \cup {T.temp_file} ELSE remote[dest]
           calls == CleanupCalls(tasks[T.task_id], files, listing) IN
       \E failed \in SUBSET SeqToSet(calls) :
          /\ remote' = [remote EXCEPT ![dest] =
                           AfterCleanup(files, DeleteCalls(calls, failed), failed)]
          /\ lastCleanup' = [task_id |-> T.task_id, dest |-> dest,
                             list_ok |-> listing = "ok", raised |-> listing = "raised",
                             listed |-> IF listing = "ok" THEN files ELSE {},
                             calls |-> DeleteCalls(calls, failed), failed |-> failed]
          /\ threads' = [threads EXCEPT ![th] =
                 [T EXCEPT !.pc = "finish", !.result = UploadResult(up_ok, listing, failed)]]
    /\ temp' = RemoveTemp(temp, T.temp_file)
    /\ UNCHANGED <<tasks, logs, nextLogId, clock, ret, scheduler, requests, source>>

\* lines 316-339: upload the artifact, then run the retention cleanup; the
\* finally clause removes temp_file
Upload(th, up_ok, listing) ==
    LET T == threads[th]
        dest == T.storage_configs[T.idx].storage_config_id IN
    /\ T.pc = "upload"
    /\ IF ~up_ok \/ ~TaskExists(T.task_id)
       THEN /\ threads' = [threads EXCEPT ![th] =
                   [T EXCEPT !.pc = "finish", !.result = UploadResult(FALSE, listing, {})]]
            /\ UNCHANGED <<remote, lastCleanup>>
       ELSE LET files == remote[dest] \cup {T.temp_file}
                calls == CleanupCalls(tasks[T.task_id], files, listing) IN
            \E failed \in SUBSET SeqToSet(calls) :
               /\ remote' = [remote EXCEPT ![dest] =
                                AfterCleanup(files, DeleteCalls(calls, failed), failed)]
               /\ lastCleanup' = [task_id |-> T.task_id, dest |-> dest,
                                  list_ok |-> listing = "ok", raised |-> listing = "raised",
                                  listed |-> IF listing = "ok" THEN files ELSE {},
                                  calls |-> DeleteCalls(calls, failed), failed |-> failed]
               /\ threads' = [threads EXCEPT ![th] =
                      [T EXCEPT !.pc = "finish", !.result = UploadResult(TRUE, listing, failed)]]
    /\ temp' = RemoveTemp(temp, T.temp_file)
    /\ UNCHANGED <<tasks, logs, nextLogId, clock, ret, scheduler, requests, source>>

\* the terminal update lost
FinishedLogKeepRunning(log, result, c) == log

\* the terminal update ignoring the outcome
FinishedLogAlwaysSuccess(log, result, c) ==
    [log EXCEPT !.status = "success", !.end_time = LocalTime(c)]

\* lines 210-227: the terminal update of the row
FinishedLog(log, result, c) ==
    [log EXCEPT !.status = IF result = "ok" THEN "success" ELSE "failed",
                !.end_time = LocalTime(c),
                !.error_message = IF result = "ok" THEN @ ELSE result]

\* the caller is answered only when a binding is done, with its outcome
FinishReturningOutcome(th, fault) ==
    LET T == threads[th] IN
    /\ T.pc = "finish"
    /\ IF fault \/ T.log_id \notin DOMAIN logs
       THEN /\ threads' = [threads EXCEPT ![th] = [T EXCEPT !.pc = "handler"]]
            /\ UNCHANGED <<logs, ret>>
       ELSE /\ logs' = [logs EXCEPT ![T.log_id] =
                          [@ EXCEPT !.status = IF T.result = "ok" THEN "success" ELSE "failed",
                                    !.end_time = LocalTime(clock),
                                    !.error_message = IF T.result = "ok" THEN @ ELSE T.result]]
            /\ ret' = [op |-> "run", task_id |-> T.task_id, ok |-> T.result = "ok",
                       msg |-> T.result]
            /\ threads' = [threads EXCEPT ![th] =
                   [T EXCEPT !.pc = IF T.idx < Len(T.storage_configs) THEN "create" ELSE "update_task",
                             !.idx = IF T.idx < Len(T.storage_configs) THEN T.idx + 1 ELSE T.idx,
                             !.log_id = 0, !.temp_file = <<>>, !.result = "",
                             !.done = Append(T.done, [log_id |-> T.log_id, ok |-> T.result = "ok"])]]
    /\ lastCleanup' = NoCleanup
    /\ UNCHANGED <<tasks, nextLogId, remote, clock, scheduler, temp, requests, source>>

\* lines 210-230: record the binding's outcome, commit, go to the next binding;
\* fault: the commit raises (as it does when the row is gone), which leaves the loop
Finish(th, fault) ==
    LET T == threads[th] IN
    /\ T.pc = "finish"
    /\ IF fault \/ T.log_id \notin DOMAIN logs
       THEN /\ threads' = [threads EXCEPT ![th] = [T EXCEPT !.pc = "handler"]]
            /\ UNCHANGED logs
       ELSE /\ logs' = [logs EXCEPT ![T.log_id] = FinishedLog(@, T.result, clock)]
            /\ threads' = [threads EXCEPT ![th] =
                   [T EXCEPT !.pc = IF T.idx < Len(T.storage_configs) THEN "create" ELSE "update_task",
                             !.idx = IF T.idx < Len(T.storage_configs) THEN T.idx + 1 ELSE T.idx,
                             !.log_id = 0, !.temp_file = <<>>, !.result = "",
                             !.done = Append(T.done, [log_id |-> T.log_id, ok |-> T.result = "ok"])]]
    /\ lastCleanup' = NoCleanup
    /\ UNCHANGED <<tasks, nextLogId, remote, clock, ret, scheduler, temp, requests, source>>

\* next_run_at recomputed by manual runs too
UpdateLastRunAlwaysNext(th) ==
    LET T == threads[th] IN
    /\ T.pc = "update_task"
    /\ IF ~TaskExists(T.task_id)
       THEN /\ threads' = [threads EXCEPT ![th] = [T EXCEPT !.pc = "handler"]]
            /\ UNCHANGED tasks
       ELSE /\ LET task == tasks[T.task_id] IN
               tasks' = [tasks EXCEPT ![T.task_id] =
                   [task EXCEPT !.last_run_at = LocalTime(clock),
                                !.next_run_at = IF task.cron_expression # NoCron
                                                THEN CalculateNextRunTime(task.cron_expression, clock)
                                                ELSE task.next_run_at]]
            /\ threads' = [threads EXCEPT ![th] = IdleThread]
    /\ UNCHANGED <<logs, nextLogId, remote, clock, ret, lastCleanup, scheduler, temp, requests, source>>

\* last_run_at written only when every binding succeeded
UpdateLastRunOnSuccess(th) ==
    LET T == threads[th] IN
    /\ T.pc = "update_task"
    /\ IF ~TaskExists(T.task_id)
       THEN /\ threads' = [threads EXCEPT ![th] = [T EXCEPT !.pc = "handler"]]
            /\ UNCHANGED tasks
       ELSE /\ LET task == tasks[T.task_id] IN
               tasks' = [tasks EXCEPT ![T.task_id] =
                   [task EXCEPT !.last_run_at = IF \A i \in DOMAIN T.done : T.done[i].ok
                                                THEN LocalTime(clock) ELSE @,
                                !.next_run_at = IF ~T.manual /\ task.cron_expression # NoCron
                                                THEN CalculateNextRunTime(task.cron_expression, clock)
                                                ELSE task.next_run_at]]
            /\ threads' = [threads EXCEPT ![th] = IdleThread]
    /\ UNCHANGED <<logs, nextLogId, remote, clock, ret, lastCleanup, scheduler, temp, requests, source>>

\* lines 232-237: after the last binding
UpdateLastRun(th) ==
    LET T == threads[th] IN
    /\ T.pc = "update_task"
    /\ IF ~TaskExists(T.task_id)
       THEN /\ threads' = [threads EXCEPT ![th] = [T EXCEPT !.pc = "handler"]]
            /\ UNCHANGED tasks
       ELSE /\ LET task == tasks[T.task_id] IN
               tasks' = [tasks EXCEPT ![T.task_id] =
                   [task EXCEPT !.last_run_at = LocalTime(clock),
                                !.next_run_at = IF ~T.manual /\ task.cron_expression # NoCron
                                                THEN CalculateNextRunTime(task.cron_expression, clock)
                                                ELSE task.next_run_at]]
            /\ threads' = [threads EXCEPT ![th] = IdleThread]
    /\ UNCHANGED <<logs, nextLogId, remote, clock, ret, lastCleanup, scheduler, temp, requests, source>>

\* lines 239-255: an exception escaped the loop; ok: the session can still
\* query and commit (after a failed commit it cannot, and the rows stay as they are)
ExceptionHandler(th, ok) ==
    LET T == threads[th] IN
    /\ T.pc = "handler"
    /\ logs' = [id \in DOMAIN logs |->
                   IF ok /\ id \in RunningLogs(T.task_id)
                   THEN [logs[id] EXCEPT !.status = "failed", !.end_time = LocalTime(clock),
                                         !.error_message = "exception"]
                   ELSE logs[id]]
    /\ threads' = [threads EXCEPT ![th] = IdleThread]
    /\ UNCHANGED <<tasks, nextLogId, remote, clock, ret, lastCleanup, scheduler, temp, requests, source>>

\* ------------------------------------------------------------ environment

\* time passes; instants are sampled twice per day
TickHours == 2 * StaleHours

Tick ==
    /\ clock + TickHours <= MaxClock
    /\ clock' = clock + TickHours
    /\ UNCHANGED <<tasks, logs, nextLogId, threads, remote, ret, lastCleanup, scheduler, temp, requests, source>>

\* ------------------------------------------------------- maintenance jobs

\* a sweep that selects nothing
IsStuckNever(log, c) == FALSE

\* a sweep that takes every running row, whatever its age
IsStuckAnyAge(log, c) == log.status = "running"

\* the filter of run_scheduled_task_check (lines 108-112)
IsStuck(log, c) == log.status = "running" /\ log.start_time < CutoffTime(c)

\* lines 108-124: the rows as a sweep at instant c leaves them
SweptLogs(c) ==
    [id \in DOMAIN logs |->
        IF IsStuck(logs[id], c)
        THEN [logs[id] EXCEPT !.status = "failed", !.end_time = c,
                              !.error_message = "timeout"]
        ELSE logs[id]]

\* lines 92-129, fired by the hourly trigger
RunScheduledTaskCheck ==
    /\ logs' = SweptLogs(clock)
    /\ UNCHANGED <<tasks, nextLogId, threads, remote, clock, ret, lastCleanup, scheduler, temp, requests, source>>

SuccessLogs(t) == {id \in DOMAIN logs : logs[id].task_id = t /\ logs[id].status = "success"}

\* possible_extensions of _cleanup_old_backups (lines 635-648)
PossibleExtensions(task) ==
    LET base == IF task.compression_enabled
                THEN (IF task.compression_type = "tar.gz" THEN {ExtTarGz}
                      ELSE IF task.compression_type = "zip" THEN {ExtZip} ELSE {})
                ELSE (IF task.source_is_file THEN {<<DOT, 116, 120, 116>>} ELSE {}) IN
    IF task.encryption_enabled THEN {e \o ExtEncrypted : e \in base} ELSE base

\* lines 620-627: successful_logs[retention_count:], newest first; rows with
\* equal start_time come in any order
OldSuccessChoices(t) ==
    LET succ == SuccessLogs(t)
        n == tasks[t].retention_count IN
    IF Cardinality(succ) > n
    THEN {S \in SUBSET succ :
            /\ Cardinality(S) = Cardinality(succ) - (IF n > 0 THEN n ELSE 0)
            /\ \A a \in S, b \in succ \ S : logs[a].start_time <= logs[b].start_time}
    ELSE {{}}

\* lines 629-676: the rows _cleanup_old_backups deletes; with a file name to
\* try and no single-destination remote_path the attribute error skips the row
DeletableOld(t, S) ==
    IF PossibleExtensions(tasks[t]) # {} /\ tasks[t].storage_config_id = 0 THEN {} ELSE S

\* lines 632-656: the remote names it tries to delete
OldFileNames(t, S) ==
    {tasks[t].name \o <<US>> \o Timestamp(logs[id].start_time) \o e :
        id \in S, e \in PossibleExtensions(tasks[t])}

ActiveTasks == {t \in TaskIds : tasks[t].exists /\ tasks[t].is_active}

\* lines 55-89, fired by the daily 01:00 trigger (scheduler timezone Asia/Shanghai)
RunScheduledCleanup ==
    /\ LocalTime(clock) % 24 = DailyCleanupHour
    /\ \E pick \in [ActiveTasks -> SUBSET DOMAIN logs] :
        /\ \A t \in ActiveTasks : pick[t] \in OldSuccessChoices(t)
        /\ LET gone == UNION {DeletableOld(t, pick[t]) : t \in ActiveTasks}
               names == UNION {OldFileNames(t, DeletableOld(t, pick[t])) : t \in ActiveTasks} IN
           /\ logs' = [id \in DOMAIN logs \ gone |-> logs[id]]
           /\ \E failed \in SUBSET names :
               remote' = [d \in Dests |->
                   remote[d] \ UNION {OldFileNames(t, DeletableOld(t, pick[t])) \ failed :
                                        t \in {x \in ActiveTasks : tasks[x].storage_config_id = d}}]
    /\ UNCHANGED <<tasks, nextLogId, threads, clock, ret, lastCleanup, scheduler, temp, requests, source>>

\* ------------------------------------------------------ delete_backup_task

\* delete_backup_task without its look for a running row
DeleteBackupTaskUnguarded(t) ==
    /\ IF ~TaskExists(t)
       THEN /\ ret' = [op |-> "delete", task_id |-> t, ok |-> FALSE, msg |-> "not found"]
            /\ UNCHANGED <<tasks, logs>>
       ELSE /\ ret' = [op |-> "delete", task_id |-> t, ok |-> TRUE, msg |-> "deleted"]
            /\ logs' = [id \in {x \in DOMAIN logs : logs[x].task_id # t} |-> logs[id]]
            /\ tasks' = [tasks EXCEPT ![t].exists = FALSE]
    /\ UNCHANGED <<nextLogId, threads, remote, clock, lastCleanup, temp, requests, source>>

\* lines 585-614
DeleteBackupTask(t) ==
    /\ IF ~TaskExists(t)
       THEN /\ ret' = [op |-> "delete", task_id |-> t, ok |-> FALSE, msg |-> "not found"]
            /\ UNCHANGED <<tasks, logs>>
       ELSE IF RunningLogs(t) # {}
       THEN /\ ret' = [op |-> "delete", task_id |-> t, ok |-> FALSE, msg |-> "running"]
            /\ UNCHANGED <<tasks, logs>>
       ELSE /\ ret' = [op |-> "delete", task_id |-> t, ok |-> TRUE, msg |-> "deleted"]
            /\ logs' = [id \in {x \in DOMAIN logs : logs[x].task_id # t} |-> logs[id]]
            /\ tasks' = [tasks EXCEPT ![t].exists = FALSE]
    /\ UNCHANGED <<nextLogId, threads, remote, clock, lastCleanup, temp, requests, source>>

\* -------------------------------------------------------------- app routes

\* app.py lines 680-711: the delete route, which removes the task's job
\* after a successful delete_backup_task
DeleteBackupTaskRoute(t) ==
    /\ DeleteBackupTask(t)
    /\ scheduler' = IF ret'.ok /\ scheduler.running
                    THEN [scheduler EXCEPT !.jobs = RemoveBackupTask(@, t)]
                    ELSE scheduler

\* scheduler_service.py lines 25-52: the job of task t fires
RunScheduledBackupTask(t) ==
    /\ scheduler.running
    /\ \E j \in scheduler.jobs : j.id = JobId(t)
    /\ RunBackupTask(t, FALSE)

\* the id the database gives the next backup_tasks row
NewTaskId ==
    LET used == {t \in TaskIds : tasks[t].exists} IN
    IF used = {} THEN 1 ELSE (CHOOSE x \in used : \A y \in used : y <= x) + 1

\* lines 264-276 of add_backup_task: next_run_at takes the new job's next
\* fire time when a job was added
NextRunAfterAdd(task, c) ==
    IF task.cron_expression # NoCron /\ Len(task.cron_expression) = CronFields
       /\ CronTriggerOk(task.cron_expression)
    THEN CalculateNextRunTime(task.cron_expression, c)
    ELSE task.next_run_at

\* app.py lines 527-575 with create_backup_task, backup_service.py lines 33-117
CreateBackupTask(name, is_active, cron) ==
    /\ NewTaskId \in TaskIds
    /\ IF \E t \in TaskIds : tasks[t].exists /\ tasks[t].name = name
       THEN /\ ret' = [op |-> "create", task_id |-> 0, ok |-> FALSE, msg |-> "name exists"]
            /\ UNCHANGED <<tasks, scheduler>>
       ELSE LET t == NewTaskId
                row == [exists |-> TRUE, name |-> name, is_active |-> is_active,
                        cron_expression |-> cron,
                        compression_enabled |-> TRUE, compression_type |-> "tar.gz",
                        encryption_enabled |-> FALSE, encryption_password |-> <<>>,
                        source_is_file |-> FALSE,
                        retention_count |-> 1,
                        task_storage_configs |-> <<Binding(1)>>,
                        storage_config_id |-> 1, remote_path |-> "backups",
                        last_run_at |-> NoTime,
                        next_run_at |-> IF cron # NoCron
                                        THEN CalculateNextRunTime(cron, clock)
                                        ELSE NoTime]
            IN /\ ret' = [op |-> "create", task_id |-> t, ok |-> TRUE, msg |-> "created"]
               /\ IF scheduler.running
                  THEN /\ scheduler' = [scheduler EXCEPT !.jobs = AddBackupTask(@, t, row)]
                       /\ tasks' = [tasks EXCEPT ![t] =
                                       [row EXCEPT !.next_run_at = NextRunAfterAdd(row, clock)]]
                  ELSE /\ tasks' = [tasks EXCEPT ![t] = row]
                       /\ UNCHANGED scheduler
    /\ UNCHANGED <<logs, nextLogId, threads, remote, clock, lastCleanup, temp, requests, source>>

\* app.py lines 602-657 with update_backup_task, backup_service.py lines 474-583
UpdateBackupTaskRoute(t, is_active, cron) ==
    /\ IF ~TaskExists(t)
       THEN /\ ret' = [op |-> "update", task_id |-> t, ok |-> FALSE, msg |-> "not found"]
            /\ UNCHANGED <<tasks, scheduler>>
       ELSE LET row == [tasks[t] EXCEPT
                          !.is_active = is_active, !.cron_expression = cron,
                          !.next_run_at = IF cron # NoCron
                                          THEN CalculateNextRunTime(cron, clock)
                                          ELSE NoTime]
            IN /\ ret' = [op |-> "update", task_id |-> t, ok |-> TRUE, msg |-> "updated"]
               /\ IF scheduler.running
                  THEN /\ scheduler' = [scheduler EXCEPT !.jobs = UpdateBackupTask(@, t, row)]
                       /\ tasks' = [tasks EXCEPT ![t] =
                                       IF is_active
                                       THEN [row EXCEPT !.next_run_at = NextRunAfterAdd(row, clock)]
                                       ELSE row]
                  ELSE /\ tasks' = [tasks EXCEPT ![t] = row]
                       /\ UNCHANGED scheduler
    /\ UNCHANGED <<logs, nextLogId, threads, remote, clock, lastCleanup, temp, requests, source>>

\* ------------------------------------------- requests served concurrently
\* app.run serves each request on a thread of its own, so a create or an
\* update is two steps other requests can come between: the name query, and
\* the commit of the row.

\* lines 59-68 of create_backup_task: the name query of a create request
CreateBackupTaskCheck(r, name, retention_count) ==
    /\ requests[r].pc = "idle"
    /\ IF \E t \in TaskIds : tasks[t].exists /\ tasks[t].name = name
       THEN /\ ret' = [op |-> "create", task_id |-> 0, ok |-> FALSE, msg |-> "name exists"]
            /\ UNCHANGED requests
       ELSE /\ requests' = [requests EXCEPT ![r] =
                              [pc |-> "checked", op |-> "create", task_id |-> 0,
                               name |-> name, retention_count |-> retention_count]]
            /\ UNCHANGED ret
    /\ UNCHANGED <<tasks, logs, nextLogId, threads, remote, clock, lastCleanup, scheduler, temp, source>>

\* lines 70-112 of create_backup_task and app.py lines 559-566: the row is
\* built from the request as it came, added and committed
CreateBackupTaskCommit(r) ==
    LET R == requests[r]
        t == NewTaskId
        row == [exists |-> TRUE, name |-> R.name, is_active |-> TRUE,
                cron_expression |-> NoCron,
                compression_enabled |-> TRUE, compression_type |-> "tar.gz",
                encryption_enabled |-> FALSE, encryption_password |-> <<>>,
                source_is_file |-> FALSE,
                retention_count |-> R.retention_count,
                task_storage_configs |-> <<Binding(1)>>,
                storage_config_id |-> 1, remote_path |-> "backups",
                last_run_at |-> NoTime,
                next_run_at |-> NoTime]
    IN /\ R.pc = "checked" /\ R.op = "create"
       /\ t \in TaskIds
       /\ tasks' = [tasks EXCEPT ![t] = row]
       /\ scheduler' = IF scheduler.running
                       THEN [scheduler EXCEPT !.jobs = AddBackupTask(@, t, row)]
                       ELSE scheduler
       /\ ret' = [op |-> "create", task_id |-> t, ok |-> TRUE, msg |-> "created"]
       /\ requests' = [requests EXCEPT ![r] = IdleRequest]
       /\ UNCHANGED <<logs, nextLogId, threads, remote, clock, lastCleanup, temp, source>>

\* lines 477-494 of update_backup_task: the task is loaded and the name is
\* queried among the other tasks
UpdateBackupTaskCheck(r, t, name, retention_count) ==
    /\ requests[r].pc = "idle"
    /\ IF ~TaskExists(t)
       THEN /\ ret' = [op |-> "update", task_id |-> t, ok |-> FALSE, msg |-> "not found"]
            /\ UNCHANGED requests
       ELSE IF \E o \in TaskIds \ {t} : tasks[o].exists /\ tasks[o].name = name
       THEN /\ ret' = [op |-> "update", task_id |-> t, ok |-> FALSE, msg |-> "name exists"]
            /\ UNCHANGED requests
       ELSE /\ requests' = [requests EXCEPT ![r] =
                              [pc |-> "checked", op |-> "update", task_id |-> t,
                               name |-> name, retention_count |-> retention_count]]
            /\ UNCHANGED ret
    /\ UNCHANGED <<tasks, logs, nextLogId, threads, remote, clock, lastCleanup, scheduler, temp, source>>

\* lines 510-577 of update_backup_task and app.py lines 636-644: the loaded
\* row takes the request's values and is committed; the commit of a row
\* deleted in between raises and is rolled back
UpdateBackupTaskCommit(r) ==
    LET R == requests[r]
        t == R.task_id
    IN /\ R.pc = "checked" /\ R.op = "update"
       /\ IF ~TaskExists(t)
          THEN /\ ret' = [op |-> "update", task_id |-> t, ok |-> FALSE, msg |-> "raised"]
               /\ UNCHANGED <<tasks, scheduler>>
          ELSE LET row == [tasks[t] EXCEPT
                             !.name = R.name, !.retention_count = R.retention_count,
                             !.next_run_at = IF tasks[t].cron_expression # NoCron
                                             THEN CalculateNextRunTime(tasks[t].cron_expression, clock)
                                             ELSE NoTime]
               IN /\ ret' = [op |-> "update", task_id |-> t, ok |-> TRUE, msg |-> "updated"]
                  /\ tasks' = [tasks EXCEPT ![t] =
                                  IF scheduler.running /\ row.is_active
                                  THEN [row EXCEPT !.next_run_at = NextRunAfterAdd(row, clock)]
                                  ELSE row]
                  /\ scheduler' = IF scheduler.running
                                  THEN [scheduler EXCEPT !.jobs = UpdateBackupTask(@, t, row)]
                                  ELSE scheduler
       /\ requests' = [requests EXCEPT ![r] = IdleRequest]
       /\ UNCHANGED <<logs, nextLogId, threads, remote, clock, lastCleanup, temp, source>>

\* scheduler_service.py lines 140-189: init_app and start on the persisted
\* job store; reload_backup_tasks also renews next_run_at of the tasks it adds
Start ==
    /\ ~scheduler.running
    /\ scheduler' = [running |-> TRUE,
                     jobs |-> ReloadBackupTasks(AddSystemJobs(scheduler.jobs), tasks)]
    /\ tasks' = [t \in DOMAIN tasks |->
                   IF tasks[t].exists /\ tasks[t].is_active
                   THEN [tasks[t] EXCEPT !.next_run_at = NextRunAfterAdd(tasks[t], clock)]
                   ELSE tasks[t]]
    /\ UNCHANGED <<logs, nextLogId, threads, remote, clock, ret, lastCleanup, temp, requests, source>>

\* ---------------------------------------------------------- specifications

\* Spec: one backup thread in flight at a time, running the two-destination
\* task, interleaved with the passage of time, both maintenance jobs and
\* task deletion.
Init == InitWith(1)

RunIds == {1}

Next ==
    \/ \E t \in RunIds : RunBackupTask(t, TRUE)
    \/ \E t \in RunIds : RunScheduledBackupTask(t)
    \/ \E th \in Threads : ThreadStart(th)
    \/ \E th \in Threads, fault \in BOOLEAN : CreateLog(th, fault)
    \/ \E th \in Threads, outcome \in {"ok", "failed", "raised"} : Prepare(th, outcome)
    \/ \E th \in Threads, up_ok \in BOOLEAN, listing \in ListOutcomes : Upload(th, up_ok, listing)
    \/ \E th \in Threads, fault \in BOOLEAN : Finish(th, fault)
    \/ \E th \in Threads : UpdateLastRun(th)
    \/ \E th \in Threads, ok \in BOOLEAN : ExceptionHandler(th, ok)
    \/ Tick
    \/ RunScheduledTaskCheck
    \/ RunScheduledCleanup
    \/ \E t \in RunIds : DeleteBackupTaskRoute(t)

Spec == Init /\ [][Next]_vars

\* SpecRace: concurrent backup threads and every kind of run_backup_task call
\* (existing, disabled and missing task ids), at one instant.
InitRace == InitWith(MaxThreads)

RaceIds == {1, 3, 4}

NextRace ==
    \/ \E t \in RaceIds : RunBackupTask(t, TRUE)
    \/ \E t \in RaceIds : RunScheduledBackupTask(t)
    \/ \E th \in Threads : ThreadStart(th)
    \/ \E th \in Threads : CreateLog(th, FALSE)
    \/ \E th \in Threads, outcome \in {"ok", "failed"} : Prepare(th, outcome)
    \/ \E th \in Threads, up_ok \in BOOLEAN : Upload(th, up_ok, "ok")
    \/ \E th \in Threads : Finish(th, FALSE)
    \/ \E th \in Threads : UpdateLastRun(th)

SpecRace == InitRace /\ [][NextRace]_vars


\* SpecCleanup: the retention cleanup applied to directory listings drawn
\* from a universe of names, for the stored retention counts 0..MaxRetention
\* (the task form stores the number it is given).
Plain(task) == [task EXCEPT !.compression_enabled = FALSE, !.source_is_file = TRUE]

Encrypted(task) ==
    [task EXCEPT !.encryption_enabled = TRUE, !.encryption_password = <<99, 72, 99, 61>>]

ListingHours == {LocalTime(StartClock + k * TickHours) : k \in 0..(MaxListing - 1)}

UnrelatedFile == <<97, 98, DOT, 116, 120, 116>>

NameUniverse ==
    {ArtifactName(InitialTasks[1], h) : h \in ListingHours}
    \cup {ArtifactName(Plain(InitialTasks[1]), h) : h \in {LocalTime(StartClock), LocalTime(StartClock + TickHours)}}
    \cup {ArtifactName(Encrypted(InitialTasks[1]), LocalTime(StartClock))}
    \cup {ArtifactName(InitialTasks[2], h) : h \in {LocalTime(StartClock), LocalTime(StartClock + TickHours)}}
    \cup {UnrelatedFile}

CleanupIds == {1, 2}

InitCleanup ==
    /\ \E n \in 0..MaxRetention, plain \in BOOLEAN :
         tasks = [InitialTasks EXCEPT
                    ![1] = [(IF plain THEN Plain(@) ELSE @) EXCEPT !.retention_count = n]]
    /\ \E S \in SUBSET NameUniverse :
         /\ Cardinality(S) <= MaxListing
         /\ remote = [d \in Dests |-> IF d = 1 THEN S ELSE {}]
    /\ logs = <<>>
    /\ nextLogId = 1
    /\ threads = [th \in 1..1 |-> IdleThread]
    /\ clock = StartClock
    /\ ret = NoReturn
    /\ lastCleanup = NoCleanup
    /\ temp = {}
    /\ requests = [r \in 1..MaxRequests |-> IdleRequest]
    /\ source = SourceOf(tasks[1])
    /\ scheduler = StartedScheduler(tasks)

\* lines 686-750 applied to destination d for task t
CleanupOldBackupsFromRemoteStorage(t, d, listing) ==
    LET calls == CleanupCalls(tasks[t], remote[d], listing) IN
    \E failed \in SUBSET SeqToSet(calls) :
       /\ remote' = [remote EXCEPT ![d] =
                        AfterCleanup(remote[d], DeleteCalls(calls, failed), failed)]
       /\ lastCleanup' = [task_id |-> t, dest |-> d,
                          list_ok |-> listing = "ok", raised |-> listing = "raised",
                          listed |-> IF listing = "ok" THEN remote[d] ELSE {},
                          calls |-> DeleteCalls(calls, failed), failed |-> failed]
       /\ UNCHANGED <<tasks, logs, nextLogId, threads, clock, ret, scheduler, temp, requests, source>>

NextCleanup ==
    \E t \in CleanupIds, listing \in ListOutcomes : CleanupOldBackupsFromRemoteStorage(t, 1, listing)

SpecCleanup == InitCleanup /\ [][NextCleanup]_vars


\* SpecUpload: one run of the two-destination task into directories that
\* already hold artifacts of its earlier runs, with every outcome of the
\* upload, the listing and the deletes.
OldArtifacts == {ArtifactName(InitialTasks[1], LocalTime(StartClock) - k) : k \in 1..MaxOld}

InitUpload ==
    /\ tasks = InitialTasks
    /\ logs = <<>>
    /\ nextLogId = 1
    /\ threads = [th \in 1..1 |-> IdleThread]
    /\ remote \in [Dests -> SUBSET OldArtifacts]
    /\ clock = StartClock
    /\ ret = NoReturn
    /\ lastCleanup = NoCleanup
    /\ temp = {}
    /\ requests = [r \in 1..MaxRequests |-> IdleRequest]
    /\ source = SourceOf(tasks[1])
    /\ scheduler = StartedScheduler(InitialTasks)

NextUpload ==
    \/ RunBackupTask(1, TRUE)
    \/ RunScheduledBackupTask(1)
    \/ \E th \in Threads : ThreadStart(th)
    \/ \E th \in Threads : CreateLog(th, FALSE)
    \/ \E th \in Threads, outcome \in {"ok", "failed"} : Prepare(th, outcome)
    \/ \E th \in Threads, up_ok \in BOOLEAN, listing \in ListOutcomes : Upload(th, up_ok, listing)
    \/ \E th \in Threads : Finish(th, FALSE)
    \/ \E th \in Threads : UpdateLastRun(th)

SpecUpload == InitUpload /\ [][NextUpload]_vars

\* SpecCrash: the process dies during a run and is restarted; the backup
\* threads (daemon threads) are gone, the committed rows are not.  Time goes
\* on and the hourly trigger keeps firing the sweep.  The crash is placed at
\* the first instant, so that the horizon MaxClock contains the sweeps after it.
Crash ==
    /\ clock = StartClock
    /\ \E th \in Threads : threads[th].pc # "idle"
    /\ threads' = [th \in Threads |-> IdleThread]
    /\ UNCHANGED <<tasks, logs, nextLogId, remote, clock, ret, lastCleanup, scheduler, temp, requests, source>>

NextCrash ==
    \/ RunBackupTask(1, TRUE)
    \/ RunScheduledBackupTask(1)
    \/ \E th \in Threads : ThreadStart(th)
    \/ \E th \in Threads : CreateLog(th, FALSE)
    \/ \E th \in Threads, outcome \in {"ok", "failed"} : Prepare(th, outcome)
    \/ \E th \in Threads, up_ok \in BOOLEAN : Upload(th, up_ok, "ok")
    \/ \E th \in Threads : Finish(th, FALSE)
    \/ \E th \in Threads : UpdateLastRun(th)
    \/ Crash
    \/ Tick
    \/ RunScheduledTaskCheck

SpecCrash ==
    /\ Init
    /\ [][NextCrash]_vars
    /\ WF_vars(Tick)
    /\ WF_vars(RunScheduledTaskCheck)

\* SpecLive: Spec with its backup thread kept scheduled: the
\* process stays alive and every call a step makes returns, so a thread that
\* can take its next step eventually takes it.
ExecuteBackupTaskAsync(th) ==
    \/ ThreadStart(th)
    \/ \E fault \in BOOLEAN : CreateLog(th, fault)
    \/ \E outcome \in {"ok", "failed", "raised"} : Prepare(th, outcome)
    \/ \E up_ok \in BOOLEAN, listing \in ListOutcomes : Upload(th, up_ok, listing)
    \/ \E fault \in BOOLEAN : Finish(th, fault)
    \/ UpdateLastRun(th)
    \/ \E ok \in BOOLEAN : ExceptionHandler(th, ok)

SpecLive ==
    /\ Init
    /\ [][Next]_vars
    /\ WF_vars(ExecuteBackupTaskAsync(1))

\* SpecTriggers: the scheduler starts on a persisted job store and a
\* persisted task table, then serves task create, update and delete and
\* fires the jobs it holds.
Daily3 == <<0, 3, Star, Star, Star>>
TwoFields == <<0, 2>>
BadHour == <<0, 24, Star, Star, Star>>
SixFields == <<0, 2, Star, Star, Star, Star>>
Crons == {NoCron, Daily2, Daily3, TwoFields, SixFields, BadHour}

\* what an earlier process may have left in the job store
PersistedJobs == {[id |-> JobId(t), trigger |-> Daily3] : t \in TaskIds} \cup AddSystemJobs({})

InitTriggers ==
    /\ \E active \in BOOLEAN, cron \in Crons :
         tasks = [InitialTasks EXCEPT
                    ![1].is_active = active,
                    ![1].cron_expression = cron,
                    ![1].next_run_at = IF cron # NoCron
                                       THEN CalculateNextRunTime(cron, StartClock)
                                       ELSE NoTime,
                    ![3].exists = FALSE]
    /\ scheduler \in [running : {FALSE}, jobs : SUBSET PersistedJobs]
    /\ logs = <<>>
    /\ nextLogId = 1
    /\ threads = [th \in 1..1 |-> IdleThread]
    /\ remote = [d \in Dests |-> {}]
    /\ clock = StartClock
    /\ ret = NoReturn
    /\ lastCleanup = NoCleanup
    /\ temp = {}
    /\ requests = [r \in 1..MaxRequests |-> IdleRequest]
    /\ source = SourceOf(tasks[1])

\* the tasks the routes are called for; task 2 stays as stored
TriggerIds == {1, 3}

\* run.py starts the scheduler before the application serves its routes
NextTriggers ==
    \/ Start
    \/ scheduler.running /\ \E active \in BOOLEAN, cron \in Crons :
                               CreateBackupTask(NameC, active, cron)
    \/ scheduler.running /\ \E t \in TriggerIds, active \in BOOLEAN, cron \in Crons :
                               UpdateBackupTaskRoute(t, active, cron)
    \/ scheduler.running /\ \E t \in TriggerIds : DeleteBackupTaskRoute(t)
    \/ \E t \in TaskIds : RunScheduledBackupTask(t)

SpecTriggers == InitTriggers /\ [][NextTriggers]_vars

\* SpecNextRun: manual and scheduled runs of task 1, stored with or without
\* a cron spec, as time passes.
InitNextRun ==
    /\ \E cron \in {NoCron, Daily2} :
         tasks = [InitialTasks EXCEPT
                    ![1].cron_expression = cron,
                    ![1].next_run_at = IF cron # NoCron
                                       THEN CalculateNextRunTime(cron, StartClock)
                                       ELSE NoTime]
    /\ scheduler = StartedScheduler(tasks)
    /\ logs = <<>>
    /\ nextLogId = 1
    /\ threads = [th \in 1..1 |-> IdleThread]
    /\ remote = [d \in Dests |-> {}]
    /\ clock = StartClock
    /\ ret = NoReturn
    /\ lastCleanup = NoCleanup
    /\ temp = {}
    /\ requests = [r \in 1..MaxRequests |-> IdleRequest]
    /\ source = SourceOf(tasks[1])

NextNextRun ==
    \/ RunBackupTask(1, TRUE)
    \/ RunScheduledBackupTask(1)
    \/ \E th \in Threads : ThreadStart(th)
    \/ \E th \in Threads : CreateLog(th, FALSE)
    \/ \E th \in Threads, outcome \in {"ok", "failed"} : Prepare(th, outcome)
    \/ \E th \in Threads, up_ok \in BOOLEAN : Upload(th, up_ok, "ok")
    \/ \E th \in Threads : Finish(th, FALSE)
    \/ \E th \in Threads : UpdateLastRun(th)
    \/ Tick

SpecNextRun == InitNextRun /\ [][NextNextRun]_vars

\* SpecTemp: runs of task 1 under every stored combination of the
\* compression, encryption and source settings, with every outcome of the
\* preparation, the upload and the cleanup.
StoredPassword == <<99, 72, 99, 61>>

InitTemp ==
    /\ \E compress \in BOOLEAN, type \in {"tar.gz", "zip"}, encrypt \in BOOLEAN,
          password \in {<<>>, StoredPassword}, is_file \in BOOLEAN :
         /\ ~encrypt => password = <<>>
         /\ tasks = [InitialTasks EXCEPT
                       ![1].compression_enabled = compress,
                       ![1].compression_type = type,
                       ![1].encryption_enabled = encrypt,
                       ![1].encryption_password = password,
                       ![1].source_is_file = is_file]
    /\ scheduler = StartedScheduler(tasks)
    /\ logs = <<>>
    /\ nextLogId = 1
    /\ threads = [th \in 1..1 |-> IdleThread]
    /\ remote = [d \in Dests |-> {}]
    /\ clock = StartClock
    /\ ret = NoReturn
    /\ lastCleanup = NoCleanup
    /\ temp = {}
    /\ requests = [r \in 1..MaxRequests |-> IdleRequest]
    /\ source = SourceOf(tasks[1])

NextTemp ==
    \/ RunBackupTask(1, TRUE)
    \/ \E th \in Threads : ThreadStart(th)
    \/ \E th \in Threads : CreateLog(th, FALSE)
    \/ \E th \in Threads, outcome \in PrepareOutcomes : Prepare(th, outcome)
    \/ \E th \in Threads, up_ok \in BOOLEAN, listing \in ListOutcomes : Upload(th, up_ok, listing)
    \/ \E th \in Threads : Finish(th, FALSE)
    \/ \E th \in Threads : UpdateLastRun(th)

SpecTemp == InitTemp /\ [][NextTemp]_vars

\* SpecNames: create and update requests for a stored task and for new ones,
\* served two at a time.
Requests == 1..MaxRequests

RequestNames == {NameA, NameC}

\* the retention counts a form can carry: app.py line 547 takes any integer
RetentionInputs == {-1, 0, 2}

NameIds == {1, 2}

InitNames ==
    /\ tasks = [InitialTasks EXCEPT ![2].exists = FALSE, ![3].exists = FALSE]
    /\ scheduler = StartedScheduler(tasks)
    /\ logs = <<>>
    /\ nextLogId = 1
    /\ threads = [th \in 1..1 |-> IdleThread]
    /\ remote = [d \in Dests |-> {}]
    /\ clock = StartClock
    /\ ret = NoReturn
    /\ lastCleanup = NoCleanup
    /\ temp = {}
    /\ requests = [r \in Requests |-> IdleRequest]
    /\ source = SourceOf(tasks[1])

NextNames ==
    \/ \E r \in Requests, name \in RequestNames, n \in RetentionInputs :
         CreateBackupTaskCheck(r, name, n)
    \/ \E r \in Requests : CreateBackupTaskCommit(r)
    \/ \E r \in Requests, t \in NameIds, name \in RequestNames, n \in RetentionInputs :
         UpdateBackupTaskCheck(r, t, name, n)
    \/ \E r \in Requests : UpdateBackupTaskCommit(r)

SpecNames == InitNames /\ [][NextNames]_vars

\* SpecCron: the cron spec of the stored task 1 is set at any instant of two
\* days, by the orchestrator alone (scheduler not started) or with the
\* scheduler's trigger taking over the stored value.
CronHorizon == 47

InitCron ==
    /\ clock \in 0..CronHorizon
    /\ tasks = [InitialTasks EXCEPT ![1].cron_expression = NoCron,
                                    ![1].next_run_at = NoTime]
    /\ \E running \in BOOLEAN :
         scheduler = IF running THEN StartedScheduler(tasks)
                     ELSE [running |-> FALSE, jobs |-> {}]
    /\ logs = <<>>
    /\ nextLogId = 1
    /\ threads = [th \in 1..1 |-> IdleThread]
    /\ remote = [d \in Dests |-> {}]
    /\ ret = NoReturn
    /\ lastCleanup = NoCleanup
    /\ temp = {}
    /\ requests = [r \in 1..MaxRequests |-> IdleRequest]
    /\ source = SourceOf(tasks[1])

NextCron ==
    \E active \in BOOLEAN, cron \in {Daily2, Daily3} : UpdateBackupTaskRoute(1, active, cron)

SpecCron == InitCron /\ [][NextCron]_vars

\* SpecArchive: the archive step of task 1 on any source over a few paths:
\* a file, or a directory with files, nested directories and empty ones.
SourcePaths ==
    {SourcePath, SourcePath \o <<<<120>>>>, SourcePath \o <<<<120>>, <<122>>>>,
     SourcePath \o <<<<121>>>>}

Contents == {<<>>, <<7>>}

SourceEntries ==
    {DirEntry(p) : p \in SourcePaths} \cup {FileEntry(p, c) : p \in SourcePaths, c \in Contents}

\* one entry at the source path, one entry per path, every other entry in a
\* directory of the tree
WellFormed(tree) ==
    /\ \E e \in tree : e.path = SourcePath
    /\ \A e, f \in tree : e.path = f.path => e = f
    /\ \A e \in tree : e.path # SourcePath => DirEntry(DirName(e.path)) \in tree

Sources == {tree \in SUBSET SourceEntries : WellFormed(tree)}

InitArchive ==
    /\ source \in Sources
    /\ \E type \in {"tar.gz", "zip"} :
         tasks = [InitialTasks EXCEPT ![1].compression_type = type,
                                      ![1].source_is_file = IsFile(source, SourcePath)]
    /\ scheduler = StartedScheduler(tasks)
    /\ logs = <<>>
    /\ nextLogId = 1
    /\ threads = [th \in 1..1 |-> IdleThread]
    /\ remote = [d \in Dests |-> {}]
    /\ clock = StartClock
    /\ ret = NoReturn
    /\ lastCleanup = NoCleanup
    /\ temp = {}
    /\ requests = [r \in 1..MaxRequests |-> IdleRequest]

\* lines 273-287: the compression branch writes the archive of the source
\* to the temp file
Compress(t) ==
    /\ tasks[t].compression_enabled
    /\ temp = {}
    /\ temp' = WithTemp(temp, BaseFileName(tasks[t], LocalTime(clock)),
                        IF tasks[t].compression_type = "tar.gz"
                        THEN CreateTarArchive(source, SourcePath)
                        ELSE CreateZipArchive(source, SourcePath))
    /\ UNCHANGED <<tasks, logs, nextLogId, threads, remote, clock, ret, lastCleanup,
                   scheduler, requests, source>>

NextArchive == Compress(1)

SpecArchive == InitArchive /\ [][NextArchive]_vars

\* SpecEncrypt: the encryption step of task 1, stored with any password of
\* up to three characters, on a source file of any content of up to two
\* bytes.
MaxPassword == 3
MaxContent == 2

SeqsUpTo(S, n) == UNION {[1..k -> S] : k \in 0..n}

Passwords == SeqsUpTo({112, 119}, MaxPassword) \ {<<>>}

FileContents == SeqsUpTo({7, 8}, MaxContent)

InitEncrypt ==
    /\ \E content \in FileContents : source = {FileEntry(SourcePath, content)}
    /\ \E password \in Passwords :
         tasks = [InitialTasks EXCEPT
                    ![1].compression_enabled = FALSE,
                    ![1].source_is_file = TRUE,
                    ![1].encryption_enabled = TRUE,
                    ![1].encryption_password = EncryptPassword(password)]
    /\ scheduler = StartedScheduler(tasks)
    /\ logs = <<>>
    /\ nextLogId = 1
    /\ threads = [th \in 1..1 |-> IdleThread]
    /\ remote = [d \in Dests |-> {}]
    /\ clock = StartClock
    /\ ret = NoReturn
    /\ lastCleanup = NoCleanup
    /\ temp = {}
    /\ requests = [r \in 1..MaxRequests |-> IdleRequest]

\* lines 289-314 for a single-file source: the copy is encrypted to the
\* ".encrypted" file and removed
Encrypt(t) ==
    /\ Encrypts(tasks[t])
    /\ temp = {}
    /\ temp' = {TempFile(ArtifactName(tasks[t], LocalTime(clock)),
                         EncryptFile((CHOOSE e \in source : e.path = SourcePath).content,
                                     tasks[t].encryption_password))}
    /\ UNCHANGED <<tasks, logs, nextLogId, threads, remote, clock, ret, lastCleanup,
                   scheduler, requests, source>>

NextEncrypt == Encrypt(1)

SpecEncrypt == InitEncrypt /\ [][NextEncrypt]_vars

\* SpecShared: manual runs of tasks 1 and 2, which are bound to the same
\* directory of destination 1, one after the other as time passes.
SharedIds == {1, 2}

NextShared ==
    \/ \E t \in SharedIds : RunBackupTask(t, TRUE)
    \/ \E th \in Threads : ThreadStart(th)
    \/ \E th \in Threads : CreateLog(th, FALSE)
    \/ \E th \in Threads, outcome \in {"ok", "failed"} : Prepare(th, outcome)
    \/ \E th \in Threads, up_ok \in BOOLEAN, listing \in ListOutcomes : Upload(th, up_ok, listing)
    \/ \E th \in Threads : Finish(th, FALSE)
    \/ \E th \in Threads : UpdateLastRun(th)
    \/ Tick

SpecShared == Init /\ [][NextShared]_vars

\* SpecPool: run requests arriving faster than runs make progress, with one
\* more thread available to the process than the scheduler's pool has workers.
InitPool == InitWith(PoolCapacity + 1)

NextPool ==
    \/ \E t \in RaceIds : RunBackupTask(t, TRUE)
    \/ Tick

SpecPool == InitPool /\ [][NextPool]_vars

\* ------------------------------------------------------------- properties

InProgress(t) == {th \in Threads : threads[th].pc # "idle" /\ threads[th].task_id = t}

\* the thread whose current binding a row belongs to
Owners(id) ==
    {th \in Threads : /\ threads[th].log_id = id
                      /\ threads[th].task_id = logs[id].task_id
                      /\ threads[th].pc \in {"prepare", "upload", "finish"}}

IsTerminal(status) == status \in {"success", "failed"}

C2_OneExecutionPerTask ==
    \A t \in TaskIds : Cardinality(InProgress(t)) <= 1

\* C2 amended: a runTask(T) call is accepted only when, at its check, T is
\* active and no BackupRun row of T is running; a call arriving while a row of
\* T is running is rejected, a call arriving before the first row is committed
\* or between two destinations is accepted.
C2_AcceptedOnlyWithoutRunningRow ==
    [][\A th \in Threads :
          (threads[th].pc = "idle" /\ threads'[th].pc = "start")
              => /\ TaskExists(threads'[th].task_id)
                 /\ tasks[threads'[th].task_id].is_active
                 /\ RunningLogs(threads'[th].task_id) = {}
                 /\ ret'.ok]_vars

C2_SecondAcceptedBetweenDestinations ==
    \E a, b \in Threads :
        /\ a # b
        /\ threads[a].task_id = 1 /\ threads[a].pc = "create" /\ threads[a].idx = 2
        /\ threads[b].task_id = 1 /\ threads[b].pc = "start"
        /\ ret.ok

\* C3: a row's status changes only from running to success or failed, and once
\* a row is success or failed no step changes its status, end time or error
\* message.
C3_TerminalRowsAreFinal ==
    [][\A id \in DOMAIN logs \cap DOMAIN logs' :
          /\ logs'[id].status # logs[id].status
                => logs[id].status = "running" /\ IsTerminal(logs'[id].status)
          /\ IsTerminal(logs[id].status)
                => /\ logs'[id].status = logs[id].status
                   /\ logs'[id].end_time = logs[id].end_time
                   /\ logs'[id].error_message = logs[id].error_message]_vars

Rejects(t) == ~TaskExists(t) \/ ~tasks[t].is_active \/ RunningLogs(t) # {}

\* C4: a runTask call on a task that is missing, inactive or has a running row
\* returns (false, message), starts no execution and creates no row, and
\* leaves tasks and run logs as they were.
C4_RejectedCallChangesNothing ==
    [][(ret' # ret /\ ret'.op = "run" /\ Rejects(ret'.task_id))
          => /\ ~ret'.ok
             /\ ret'.msg \in {"not found", "disabled", "running"}
             /\ UNCHANGED <<tasks, logs, nextLogId, threads, remote>>]_vars

C4_RejectedWhileRunning ==
    /\ ret.op = "run" /\ ~ret.ok /\ ret.msg = "running" /\ ret.task_id = 1
    /\ RunningLogs(1) # {}
    /\ Cardinality(InProgress(1)) = 1

C6_OneDestinationAtATime ==
    [][\A th \in Threads :
          (threads[th].pc = "create" /\ threads'[th].pc = "prepare")
              => LET T == threads[th]
                     id == threads'[th].log_id IN
                 /\ id \in DOMAIN logs' /\ id \notin DOMAIN logs
                 /\ logs'[id].status = "running"
                 /\ logs'[id].task_id = T.task_id
                 /\ logs'[id].storage_config_id = T.storage_configs[T.idx].storage_config_id
                 /\ threads'[th].idx = T.idx
                 /\ Len(T.done) = T.idx - 1
                 /\ \A i \in 1..Len(T.done) :
                       /\ T.done[i].log_id < id
                       /\ T.done[i].log_id \in DOMAIN logs'
                             => IsTerminal(logs'[T.done[i].log_id].status)]_vars

C6_SecondBindingStarted ==
    \E th \in Threads :
        LET T == threads[th] IN
        /\ T.pc = "prepare" /\ T.idx = 2
        /\ T.log_id \in DOMAIN logs /\ logs[T.log_id].status = "running"
        /\ logs[T.log_id].storage_config_id = 2
        /\ Len(T.done) = 1
        /\ T.done[1].log_id \in DOMAIN logs /\ IsTerminal(logs[T.done[1].log_id].status)

\* C7: every BackupRun row of a task that still exists after a step is still
\* present after that step.
C7_RowsRemovedOnlyWithTheirTask ==
    [][\A id \in DOMAIN logs :
          tasks'[logs[id].task_id].exists => id \in DOMAIN logs']_vars

IsDigit(c) == c >= 48 /\ c <= 57

AllDigits(s) == \A i \in 1..Len(s) : IsDigit(s[i])

\* the naming pattern {name}_{8-digit-date}_{6-digit-time}*
MatchesPattern(name, f) ==
    LET n == Len(name) IN
    /\ Len(f) >= n + 1 + DatePartLen + 1 + TimePartLen
    /\ StartsWith(f, name \o <<US>>)
    /\ AllDigits(SubSeq(f, n + 2, n + 1 + DatePartLen))
    /\ f[n + 2 + DatePartLen] = US
    /\ AllDigits(SubSeq(f, n + 3 + DatePartLen, n + 2 + DatePartLen + TimePartLen))

CleanupRan == lastCleanup.task_id # 0

\* C8: after a cleanup whose listing and deletes all succeeded, the directory
\* holds at most retention_count objects matching the task's naming pattern.
C8_AtMostRetentionCountRemain ==
    (CleanupRan /\ lastCleanup.list_ok /\ lastCleanup.failed = {})
        => Cardinality({f \in remote[lastCleanup.dest] :
                            MatchesPattern(tasks[lastCleanup.task_id].name, f)})
               <= tasks[lastCleanup.task_id].retention_count

\* C9: a cleanup for task T counts and deletes only T's own artifacts, never an
\* object of another task or an unrelated file.
C9_OnlyOwnArtifacts ==
    CleanupRan =>
        LET name == tasks[lastCleanup.task_id].name IN
        /\ \A f \in SeqToSet(lastCleanup.calls) : MatchesPattern(name, f)
        /\ \A f \in TaskFiles(name, lastCleanup.listed) : MatchesPattern(name, f)

\* C10: with count matching objects, a cleanup deletes exactly the
\* count - retention_count smallest names when count > retention_count, and
\* issues no delete call otherwise.
C10_DeletesExactlyTheExcess ==
    (CleanupRan /\ lastCleanup.list_ok) =>
        LET matching == TaskFiles(tasks[lastCleanup.task_id].name, lastCleanup.listed)
            count == Cardinality(matching)
            n == tasks[lastCleanup.task_id].retention_count
            deleted == SeqToSet(lastCleanup.calls) IN
        IF count > n
        THEN /\ Len(lastCleanup.calls) = count - n
             /\ Cardinality(deleted) = count - n
             /\ deleted \subseteq matching
             /\ \A f \in deleted, g \in matching \ deleted : LexLess(f, g)
        ELSE lastCleanup.calls = <<>>


\* the files a cleanup selected for deletion
Selected ==
    FilesToDelete(tasks[lastCleanup.task_id].name,
                  tasks[lastCleanup.task_id].retention_count, lastCleanup.listed)

\* C11: for every object a cleanup selected for deletion exactly one delete
\* call is attempted, whatever the outcome of the deletes before it.
C11_OneDeleteCallPerSelected ==
    (CleanupRan /\ lastCleanup.list_ok) =>
        /\ SeqToSet(lastCleanup.calls) = SeqToSet(Selected)
        /\ \A f \in SeqToSet(Selected) :
              Cardinality({i \in 1..Len(lastCleanup.calls) : lastCleanup.calls[i] = f}) = 1

C11_CallAfterFailedDelete ==
    /\ CleanupRan /\ lastCleanup.list_ok
    /\ Len(lastCleanup.calls) >= 2
    /\ lastCleanup.calls[1] \in lastCleanup.failed
    /\ lastCleanup.calls[2] \notin lastCleanup.failed
    /\ lastCleanup.calls[2] \notin remote[lastCleanup.dest]


\* C12: once the upload to a destination has succeeded (so the cleanup was
\* invoked), the binding's result is success and its row ends success, whether
\* the listing failed, deletes failed or the cleanup raised; and a cleanup
\* whose listing failed issues no delete call.
C12_CleanupFailureNotSurfaced ==
    [][\A th \in Threads :
          /\ (threads[th].pc = "upload" /\ threads'[th].pc = "finish"
                 /\ lastCleanup' # lastCleanup)
                => /\ threads'[th].result = "ok"
                   /\ ~lastCleanup'.list_ok => lastCleanup'.calls = <<>>
          /\ (threads[th].pc = "finish" /\ threads[th].result = "ok"
                 /\ threads'[th].pc \in {"create", "update_task"})
                => logs'[threads[th].log_id].status = "success"]_vars

C12_SuccessDespiteFailedCleanup ==
    \E th \in Threads :
        /\ threads[th].pc = "create" /\ threads[th].idx = 2
        /\ logs[threads[th].done[1].log_id].status = "success"
        /\ remote[1] \cap OldArtifacts # {}
        /\ Cardinality(remote[1]) = 1 + MaxOld


\* the instant (UTC) at which a row's run started
StartInstant(log) == log.start_time - UtcOffsetHours

\* C13: a sweep at any instant sets every row that is running and whose run
\* started more than StaleHours before that instant to failed, with an end
\* time and the timeout message.
C13_SweepFailsEveryStaleRow ==
    \A id \in DOMAIN logs :
        (logs[id].status = "running" /\ clock - StartInstant(logs[id]) > StaleHours)
            => /\ SweptLogs(clock)[id].status = "failed"
               /\ SweptLogs(clock)[id].end_time # NoTime
               /\ SweptLogs(clock)[id].error_message = "timeout"


LogIds == 1..MaxLogs

\* a running row no backup thread is working on
Orphaned(id) ==
    /\ id \in DOMAIN logs
    /\ logs[id].status = "running"
    /\ Owners(id) = {}

\* C14: a row left running by a crash makes every runTask on its task be
\* rejected for as long as it is running; with time passing and the sweep
\* firing, it eventually is failed; and a task that exists, is active and
\* has no running row is accepted by the gate.
C14_OrphanedRowRecovered ==
    /\ [](\A id \in LogIds : Orphaned(id) => Gate(logs[id].task_id) = "running")
    /\ \A id \in LogIds :
          Orphaned(id) ~> (id \in DOMAIN logs /\ logs[id].status = "failed")
    /\ [](\A t \in TaskIds :
            (TaskExists(t) /\ tasks[t].is_active /\ RunningLogs(t) = {}) => Gate(t) = "")

C14_AcceptedAfterSweep ==
    /\ 1 \in DOMAIN logs
    /\ logs[1].status = "failed" /\ logs[1].error_message = "timeout"
    /\ logs[1].task_id = 1
    /\ ret.ok /\ ret.task_id = 1
    /\ \E th \in Threads : threads[th].pc = "start" /\ threads[th].task_id = 1

\* -------------------------------------------------------------- triggers

TaskJobs(t) == {j \in scheduler.jobs : j.id = JobId(t)}

\* the task is stored, active and has a non-empty cron spec
Schedulable(t) ==
    TaskExists(t) /\ tasks[t].is_active /\ tasks[t].cron_expression # NoCron

\* the scheduler accepts the cron spec: 5 fields, each in its range
AcceptedCron(cron) == Len(cron) = CronFields /\ CronTriggerOk(cron)

\* C15: with the scheduler running, a trigger keyed by a task id exists if
\* and only if the task exists, is active and has a non-empty cron spec, and
\* no task has more than one trigger.
C15_TriggerIffSchedulable ==
    scheduler.running =>
        \A t \in TaskIds :
            /\ (TaskJobs(t) # {}) <=> Schedulable(t)
            /\ Cardinality(TaskJobs(t)) <= 1

\* the last call served was a successful update (delete) of task ret.task_id
Updated == ret.op = "update" /\ ret.ok
Deleted == ret.op = "delete" /\ ret.ok

\* a step in which the scheduler's job of task t starts a run
FireStarts(t) ==
    \E th \in Threads :
        /\ threads[th].pc = "idle"
        /\ threads'[th].pc = "start"
        /\ threads'[th].task_id = t
        /\ ~threads'[th].manual

\* C16 as stated: after an update to inactive or to an empty cron spec, and
\* after a successful delete, the task has no trigger; after an update that
\* keeps the task active with a cron spec it has exactly one trigger, with
\* the new cron spec.
C16_TriggerFollowsUpdate ==
    /\ Updated =>
          LET t == ret.task_id IN
          IF ~tasks[t].is_active \/ tasks[t].cron_expression = NoCron
          THEN TaskJobs(t) = {}
          ELSE TaskJobs(t) = {[id |-> JobId(t), trigger |-> tasks[t].cron_expression]}
    /\ Deleted => TaskJobs(ret.task_id) = {}

\* C16 amended: the same, where the update that keeps the task active gives
\* it a cron spec the scheduler accepts (5 fields, each in its range); an
\* update to any other non-empty cron spec leaves the task without a trigger.
\* A job's fire starts a run only while the job is in the store.
C16_TriggerFollowsAcceptedUpdate ==
    /\ [](Updated =>
            LET t == ret.task_id IN
            IF tasks[t].is_active /\ AcceptedCron(tasks[t].cron_expression)
            THEN TaskJobs(t) = {[id |-> JobId(t), trigger |-> tasks[t].cron_expression]}
            ELSE TaskJobs(t) = {})
    /\ [](Deleted => TaskJobs(ret.task_id) = {})
    /\ [][\A t \in TaskIds : FireStarts(t) => TaskJobs(t) # {}]_vars

\* an update replaced the trigger of an active task by one with the new spec
C16_TriggerReplaced ==
    /\ Updated
    /\ ret.task_id = 1
    /\ tasks[1].is_active
    /\ tasks[1].cron_expression = Daily3
    /\ TaskJobs(1) = {[id |-> JobId(1), trigger |-> Daily3]}

\* the scheduler has started and no route has been served since
Reconciled == scheduler.running /\ ret = NoReturn

\* the ids of the tasks that have a trigger
Triggered == {j.id[2] : j \in {x \in scheduler.jobs : x.id[1] = "backup_task_"}}

MaintenanceJobs == {j \in scheduler.jobs : j.id[1] # "backup_task_"}

\* C17 as stated: after the startup reconcile the set of task triggers equals
\* the set of active tasks with a non-empty cron spec, and the maintenance
\* triggers are in place.
C17_ReloadMatchesActiveTasks ==
    Reconciled =>
        /\ Triggered = {t \in TaskIds : Schedulable(t)}
        /\ MaintenanceJobs = AddSystemJobs({})

\* C17 amended: after the startup reconcile, whatever the job store held
\* before, the tasks that have a trigger are the active tasks whose cron
\* spec the scheduler accepts, each has one trigger and it carries the
\* task's cron spec, and the maintenance triggers are in place.
C17_ReloadMatchesAcceptedTasks ==
    Reconciled =>
        /\ Triggered = {t \in TaskIds : Schedulable(t) /\ AcceptedCron(tasks[t].cron_expression)}
        /\ \A t \in Triggered :
              TaskJobs(t) = {[id |-> JobId(t), trigger |-> tasks[t].cron_expression]}
        /\ MaintenanceJobs = AddSystemJobs({})

\* the reconcile gave task 1 the trigger of its stored cron spec, and the
\* deleted task 3 and the cron-less task 2 have none
C17_MissingAddedStaleGone ==
    /\ Reconciled
    /\ TaskJobs(1) = {[id |-> JobId(1), trigger |-> Daily2]}
    /\ TaskJobs(2) = {}
    /\ TaskJobs(3) = {}

\* ------------------------------------------------------------ worker pool

\* the runs in progress
Executing == {th \in Threads : threads[th].pc # "idle"}

\* C18: the number of task runs executing at the same time, scheduled and
\* manual together, is at most the capacity of the worker pool.
C18_RunsWithinPoolCapacity == Cardinality(Executing) <= PoolCapacity

\* ---------------------------------------------------- last_run_at, next_run_at

\* the step of thread th that follows its destination loop
LoopFinished(th) == threads[th].pc = "update_task" /\ threads'[th] # threads[th]

Recomputes(th) ==
    ~threads[th].manual /\ tasks[threads[th].task_id].cron_expression # NoCron

\* C20: no step of a manual run and no step of a run of a task without a
\* cron spec changes next_run_at; the step that follows the destination loop
\* of a scheduled run of a task with a cron spec sets next_run_at to the next
\* fire time computed at that instant.
C20_NextRunOnlyByScheduledRun ==
    [][threads' # threads =>
          /\ \A th \in Threads :
                LoopFinished(th) /\ TaskExists(threads[th].task_id) /\ Recomputes(th)
                    => LET t == threads[th].task_id IN
                       tasks'[t].next_run_at =
                           CalculateNextRunTime(tasks[t].cron_expression, clock)
          /\ \A t \in TaskIds :
                tasks'[t].next_run_at # tasks[t].next_run_at
                    => \E th \in Threads : /\ LoopFinished(th)
                                           /\ threads[th].task_id = t
                                           /\ Recomputes(th)]_vars

\* a scheduled run completed at a later instant and next_run_at moved on to
\* the fire time after it
C20_NextRunMovedOn ==
    /\ \A th \in Threads : threads[th].pc = "idle"
    /\ tasks[1].cron_expression = Daily2
    /\ tasks[1].last_run_at = LocalTime(clock)
    /\ tasks[1].next_run_at = CalculateNextRunTime(Daily2, clock)
    /\ tasks[1].next_run_at # CalculateNextRunTime(Daily2, StartClock)

\* ------------------------------------------------------------ non-blocking

\* a step in which a run_backup_task call is accepted
Accepted ==
    \E th \in Threads : threads[th].pc = "idle" /\ threads'[th].pc = "start"

\* a step of a backup thread
ThreadStep ==
    \E th \in Threads : threads[th].pc # "idle" /\ threads'[th] # threads[th]

\* C21: an accepted run_backup_task call returns when the backup thread has
\* been started and nothing of the run has been done: no row written, no
\* destination touched; its return value is the fixed acceptance message,
\* and no later step of the run changes what the caller was told.
C21_AcceptedCallReturnsAtOnce ==
    [][/\ Accepted =>
            /\ ret'.op = "run" /\ ret'.ok /\ ret'.msg = "started"
            /\ logs' = logs /\ remote' = remote /\ tasks' = tasks
       /\ ThreadStep => ret' = ret]_vars

\* the caller was told "started" and a binding of that run has since failed
C21_StartedThenFailed ==
    /\ ret.op = "run" /\ ret.ok /\ ret.msg = "started"
    /\ \E id \in DOMAIN logs : logs[id].task_id = ret.task_id /\ logs[id].status = "failed"
    /\ \E th \in Threads : threads[th].pc = "update_task" /\ threads[th].task_id = ret.task_id

\* ---------------------------------------------------------- temp directory

\* the threads between the preparation of an artifact and the end of its upload
Uploading == {th \in Threads : threads[th].pc = "upload"}

\* C22: once the processing of a destination has finished, by success or by
\* failure at any step, none of the files it created is left in the temp
\* directory.
C22_NoTempFileLeft == (Uploading = {}) => temp = {}

\* the file thread th hands to the gateway
Handed(th) == {f \in temp : f.name = threads[th].temp_file}

\* C23: when the upload of an artifact of a task with the encryption flag
\* set starts, the file handed to the gateway is ciphertext and the
\* unencrypted intermediate is no longer in the temp directory.
C23_EncryptedTaskUploadsCiphertext ==
    \A th \in Uploading :
        tasks[threads[th].task_id].encryption_enabled =>
            /\ \A f \in Handed(th) : f.content = "cipher"
            /\ \A f \in temp : f.content # "plain"

\* -------------------------------------------------------- exception handler

\* the step in which the handler of thread th's run completes
HandlerRan(th) == threads[th].pc = "handler" /\ threads'[th].pc = "idle"

\* C24: when the handler of a run of task T has run, every row of T that
\* was running is failed, with an end time and the generic message, so none
\* is left running.
C24_HandlerFailsRunningRows ==
    [][\A th \in Threads :
          HandlerRan(th) =>
              \A id \in RunningLogs(threads[th].task_id) :
                  /\ logs'[id].status = "failed"
                  /\ logs'[id].end_time = LocalTime(clock)
                  /\ logs'[id].error_message = "exception"]_vars

\* ------------------------------------------- directories without compression

\* the task's source is a directory and its compression is disabled
DirectoryUncompressed(t) == ~tasks[t].source_is_file /\ ~tasks[t].compression_enabled

\* C25: in a run of a task whose source is a directory and whose compression
\* is disabled no destination is uploaded to, listed or deleted from, and
\* every row of the run ends failed with an error message.
C25_DirectoryUncompressedFails ==
    DirectoryUncompressed(1) =>
        /\ Uploading = {}
        /\ remote = [d \in Dests |-> {}]
        /\ lastCleanup = NoCleanup
        /\ temp = {}
        /\ \A id \in DOMAIN logs :
              \/ logs[id].status = "running" /\ Owners(id) # {}
              \/ logs[id].status = "failed" /\ logs[id].error_message # ""

\* the run of such a task has gone through both destinations
C25_BothDestinationsFailed ==
    /\ DirectoryUncompressed(1)
    /\ \E th \in Threads : threads[th].pc = "update_task" /\ Len(threads[th].done) = 2
    /\ \A id \in {1, 2} : id \in DOMAIN logs /\ logs[id].status = "failed"

\* the stored tasks
Stored == {t \in TaskIds : tasks[t].exists}

\* C26: no two stored tasks have the same name, whatever create and update
\* requests were served and however they overlapped.
C26_NamesUnique ==
    \A a, b \in Stored : a # b => tasks[a].name # tasks[b].name

\* a create or update request is turned down in this step
Rejected == ret' # ret /\ ~ret'.ok /\ ret'.op \in {"create", "update"}

\* C26, second half: a request that is turned down leaves the task store as
\* it was.
C26_RejectedLeavesStore == [][Rejected => tasks' = tasks]_vars

\* C27: every task stored by a create or an update has a retention count of
\* at least 1, whatever count the request carried.
C27_RetentionPositive ==
    \A t \in Stored : tasks[t].retention_count >= 1

\* the update of task 1 that has just stored the spec "0 2 * * *"
Daily2Stored ==
    /\ ret.op = "update" /\ ret.ok /\ ret.task_id = 1
    /\ tasks[1].cron_expression = Daily2

\* the Asia/Shanghai wall-clock hours from a to b that read 02:00
Reads0200(a, b) == {u \in a..b : u % 24 = Daily2[2]}

C29_ArchiveRoundTrip ==
    \A f \in temp :
        /\ {e.path[1] : e \in Extract(f.content)} = {BaseName(SourcePath)}
        /\ Extract(f.content) = Relative(source, SourcePath)

DestinationDone(th) == threads[th].pc \in {"prepare", "upload"} /\ threads'[th].pc = "finish"

\* the destination thread th is processing
DestOf(th) == threads[th].storage_configs[threads[th].idx].storage_config_id

\* C31: in a run, the retention cleanup of a destination is invoked when and
\* only when the upload to it succeeded: a destination that fails at the
\* measuring, compression, encryption or upload step sees no list and no
\* delete call, and the listing of an invoked cleanup is taken after the
\* upload, so it holds the uploaded artifact.
C31_CleanupIffUploaded ==
    [][\A th \in Threads :
          DestinationDone(th) =>
              IF threads'[th].result = "ok"
              THEN /\ threads[th].pc = "upload"
                   /\ lastCleanup'.task_id = threads[th].task_id
                   /\ lastCleanup'.dest = DestOf(th)
                   /\ lastCleanup'.list_ok => threads[th].temp_file \in lastCleanup'.listed
              ELSE lastCleanup' = lastCleanup /\ remote' = remote]_vars

\* the upload to the first destination failed and the upload to the second
\* succeeded: only the second was listed
C31_SecondOnlyCleaned ==
    \E th \in Threads :
        /\ threads[th].pc = "finish" /\ threads[th].idx = 2 /\ threads[th].result = "ok"
        /\ ~threads[th].done[1].ok
        /\ lastCleanup.dest = 2 /\ lastCleanup.list_ok
        /\ remote[1] = {}

\* C32: every artifact a run of task T uploads, whatever T's compression
\* and encryption settings, is recognised by T's retention filter.
C32_UploadedNameRecognised ==
    \A th \in Uploading :
        IsTaskFile(tasks[threads[th].task_id].name, threads[th].temp_file)

\* C33: when the processing of a destination by a run of a task with
\* retention_count >= 1 ends in success, the artifact the run uploaded is in
\* the destination's directory: the cleanup that followed the upload did
\* not delete it.
C33_NewArtifactKept ==
    \A th \in Threads :
        (/\ threads[th].pc = "finish" /\ threads[th].result = "ok"
         /\ TaskExists(threads[th].task_id)
         /\ tasks[threads[th].task_id].retention_count >= 1)
            => threads[th].temp_file \in remote[DestOf(th)]

\* ------------------------------------------------------ sweep frame

\* a row the sweep at instant c has no business with: a finished one, or a
\* running one started less than StaleHours before c
NotStale(log, c) ==
    \/ log.status \in {"success", "failed"}
    \/ log.status = "running" /\ StartInstant(log) > c - StaleHours

\* C34: a maintenance sweep leaves every finished row and every running row
\* younger than the stale threshold as it was (status, end time, error
\* message), creates and removes no row, and modifies no task.
C34_SweepTouchesStaleOnly ==
    [][RunScheduledTaskCheck =>
          /\ DOMAIN logs' = DOMAIN logs
          /\ \A id \in DOMAIN logs : NotStale(logs[id], clock) => logs'[id] = logs[id]
          /\ tasks' = tasks]_vars

\* a sweep has failed a stale row and left a finished row and a young
\* running row of the same table alone
C34_SweptBesideOthers ==
    \E a, b \in DOMAIN logs :
        /\ logs[a].status = "failed" /\ logs[a].error_message = "timeout"
        /\ logs[b].status = "running" /\ StartInstant(logs[b]) = clock

\* C35: every row is consistent with its status: a running row has no end
\* time; a success row has an end time and no error message; a failed row
\* has an end time and an error message.
C35_RowsConsistent ==
    \A id \in DOMAIN logs :
        LET log == logs[id] IN
        /\ log.status \in {"running", "success", "failed"}
        /\ log.status = "running" => log.end_time = NoTime
        /\ log.status = "success" => log.end_time # NoTime /\ log.error_message = ""
        /\ log.status = "failed" => log.end_time # NoTime /\ log.error_message # ""


\* C36: however deleteTask(T) interleaves with an accepted run of T, every
\* BackupRun row refers to a task that exists: no delete succeeds while an
\* execution of T is in progress and no row is written for a deleted task.
C36_RowsReferToExistingTask ==
    /\ \A id \in DOMAIN logs : TaskExists(logs[id].task_id)
    /\ \A t \in TaskIds : InProgress(t) # {} => TaskExists(t)


\* C37: deleteTask on a task with a running BackupRun row is rejected and
\* leaves the task, every row and the scheduler's triggers as they were; a
\* delete that succeeds removes the task and all of its rows in one step and
\* leaves the rows of other tasks alone.
C37_DeleteAllOrNothing ==
    [][\A t \in TaskIds :
          DeleteBackupTaskRoute(t) =>
              /\ (TaskExists(t) /\ RunningLogs(t) # {}) =>
                     /\ ~ret'.ok
                     /\ tasks' = tasks
                     /\ logs' = logs
                     /\ scheduler' = scheduler
              /\ ret'.ok =>
                     /\ ~tasks'[t].exists
                     /\ \A id \in DOMAIN logs' : logs'[id].task_id # t
                     /\ \A id \in DOMAIN logs :
                            logs[id].task_id # t => id \in DOMAIN logs' /\ logs'[id] = logs[id]]_vars

\* a delete of task 1 has just been rejected: its running row and its trigger
\* are in place
C37_RejectedWhileRunning ==
    /\ ret.op = "delete" /\ ret.task_id = 1 /\ ~ret.ok /\ ret.msg = "running"
    /\ TaskExists(1)
    /\ RunningLogs(1) # {}
    /\ \E j \in scheduler.jobs : j.id = JobId(1)


\* the destination executions that hold a temp artifact
HoldingTemp == {th \in Threads : threads[th].pc = "upload"}

\* C38: any two destination executions in progress at the same time, of one
\* task or of two, use distinct temp file paths.
C38_TempPathsDistinct ==
    \A a, b \in HoldingTemp : a # b => threads[a].temp_file # threads[b].temp_file


\* the rows a run in progress has created so far
RowsOf(T) == {T.done[i].log_id : i \in DOMAIN T.done} \cup ({T.log_id} \ {0})

\* C39: every accepted run terminates, and when it does it has processed
\* every binding of its task, every BackupRun row it created that is still
\* stored is success or failed, and the task's last_run_at is the time of
\* the run's end.
C39_RunLeavesNothingBehind ==
    /\ [][\A th \in Threads :
            (threads[th].pc # "idle" /\ threads'[th].pc = "idle") =>
                LET T == threads[th] IN
                /\ \A id \in RowsOf(T) \cap DOMAIN logs' : IsTerminal(logs'[id].status)
                /\ tasks'[T.task_id].exists =>
                       /\ Len(T.done) = Len(StorageConfigsOf(tasks'[T.task_id]))
                       /\ tasks'[T.task_id].last_run_at = LocalTime(clock)]_vars
    /\ (threads[1].pc # "idle") ~> (threads[1].pc = "idle")


\* the cron specs that are given but do not have exactly five fields
Malformed == {cron \in Crons : cron # NoCron /\ Len(cron) # CronFields}

\* C40: a cron spec that does not consist of exactly five fields never
\* produces a trigger or a next-fire time: after a task is created or updated
\* with such a spec, the running scheduler holds no job keyed by the task's
\* id and the task's next_run_at is null.
C40_MalformedCronNoTrigger ==
    [][\A cron \in Malformed, active \in BOOLEAN :
          /\ \A t \in TaskIds :
                (scheduler.running /\ UpdateBackupTaskRoute(t, active, cron) /\ ret'.ok) =>
                    /\ \A j \in scheduler'.jobs : j.id # JobId(t)
                    /\ tasks'[t].cron_expression = cron
                    /\ tasks'[t].next_run_at = NoTime
          /\ (scheduler.running /\ CreateBackupTask(NameC, active, cron) /\ ret'.ok) =>
                    /\ \A j \in scheduler'.jobs : j.id # JobId(ret'.task_id)
                    /\ tasks'[ret'.task_id].cron_expression = cron
                    /\ tasks'[ret'.task_id].next_run_at = NoTime]_vars

\* active task 1 has just been updated to a malformed spec: the scheduler,
\* which still holds its system jobs, holds no job for task 1
C40_UpdatedToMalformed ==
    /\ ret.op = "update" /\ ret.task_id = 1 /\ ret.ok
    /\ scheduler.running
    /\ tasks[1].is_active
    /\ tasks[1].cron_expression \in Malformed
    /\ tasks[1].next_run_at = NoTime
    /\ \A j \in scheduler.jobs : j.id # JobId(1)
    /\ \E j \in scheduler.jobs : j.id = CheckJobId

====
